---- MODULE Spec2Model ----
(***************************************************************************)
(* A model of several pieces of the node:                                  *)
(*   - the dispute coordinator subsystem                                   *)
(*       (node/core/dispute-coordinator/src/lib.rs),                       *)
(*   - its DetermineUndisputedChain query (same file),                     *)
(*   - the availability store (availability-store/src/lib.rs),             *)
(*   - collation generation (node/collation-generation/src/lib.rs),        *)
(*   - candidate validation (node/core/candidate-validation/src/lib.rs),   *)
(*   - chain selection (node/core/chain-selection) and the SelectChain     *)
(*     wrapper around it (node/service/src/relay_chain_selection.rs),      *)
(*   - the validation workspace shared by a validation host and its        *)
(*     workers (parachain/src/wasm_executor/workspace.rs),                 *)
(*   - the large statement fetch task of statement distribution            *)
(*     (node/network/statement-distribution/src/requester.rs).             *)
(* Each piece has its own specification over the shared variables; the     *)
(* variables a specification does not use keep their initial value.        *)
(***************************************************************************)
EXTENDS Integers, Sequences, FiniteSets, TLC

VARIABLES
    \* ---- dispute coordinator ----
    highest_session,    \* State.highest_session : Option<SessionIndex>
    session_window,     \* State.rolling_session_window : Option<[earliest, latest]>
    candidate_votes,    \* DB: (session, candidate) -> Option<CandidateVotes>
    active_disputes,    \* DB: Option<ActiveDisputes>
    participate_sent,   \* outbox: number of Participate messages sent per (session, candidate)
    \* ---- DetermineUndisputedChain query ----
    chain_request,      \* Option<[base_number, block_descriptions]> : the message received
    chain_reply,        \* Option<reply> : what was sent on its reply channel
    \* ---- availability store ----
    data_col,           \* columns::DATA : key -> Option<raw bytes>
    meta_col,           \* columns::META : relay parent -> Option<raw bytes>
    written,            \* history: bytes of the last make_available per (relay_parent, candidate)
    queued,             \* history: messages of the last make_available per queue root
    pending,            \* history: candidates made available per parent since its last finalization
    store_reply,        \* Option<what the last query of the store came to>
    in_flight,          \* per Store handle: Option<the make_available call between its get and its write>
    \* ---- collation generation ----
    cg_config,          \* CollationGenerationSubsystem.config : Option<para_id of the config>
    cg_stop,            \* "running", or how the run loop was left: "double_init", "activation_error", "concluded", "stopped"
    cg_leaves,          \* per relay parent: whether it was activated, and what happened to each of its cores
    cg_inits,           \* history: the configs of the Initialize messages received, in order
    \* ---- candidate validation ----
    cv_stop,            \* "running", or how run() returned: "concluded" (Ok), "failed" (Err)
    cv_message,         \* Option<the last validation message received>
    cv_requests,        \* the runtime API requests made for it, in order, with their answers
    cv_spawned,         \* the blocking validation tasks spawned for it (their exhaustive parameters)
    cv_backend,         \* the results of the calls of ValidationBackend::validate made for it
    cv_reply,           \* Option<what was sent on its response_sender>
    cv_awaiting,        \* Option<the message whose handler awaits a runtime API reply>
    cv_conclude_sent,   \* the overseer has sent Conclude and run() has not received it
    \* ---- chain selection ----
    cs_entries,         \* block_entries: per block, whether it is stored and its viability
    cs_leaves,          \* leaves: the viable leaves, in the order they are read
    cs_finalized,       \* the last finalized block
    cs_blocks_by_number, \* the stored block hashes of each block number
    cs_walked,          \* how many headers the last activation imported
    cs_weights,         \* the weight of every header, as the chain API reports it
    ft_reply,           \* what the last SelectChain::finality_target call came to
    \* the validation workspace (shared memory) and the processes opening it
    ws_unix,            \* the build is one for unix
    ws_linked,          \* the shared memory can still be opened by its id
    ws_attached,        \* Inner.attached, the flag in the shared memory
    worker_pc,          \* per process, how far its call of open(id) has come
    \* ---- the host and the attached worker talking through the workspace ----
    ws_mem,             \* the data region of the shared memory, cell by cell
    ws_events,          \* per event, whether it is signaled
    host_pc,            \* where the host is: "start", "ready", "requested", "failed"
    host_sent,          \* history: the (params, code) of the calls of request_validation, in order
    host_result,        \* Option<the number of requests made and what the last wait_for_result returned>
    worker_st,          \* where the worker is: "attached", "idle", "working", "panicked"
    worker_work,        \* Option<what the worker's last wait_for_work returned>
    worker_reported,    \* history: the results the worker passed to report_result, in order
    \* ---- the large-statement fetch task ----
    rq_pc,              \* where fetch() is: "loop", "response", "carry_on", "more_peers", "done"
    rq_peer,            \* Option<the peer popped last>
    rq_new_peers,       \* new_peers
    rq_tried_peers,     \* tried_peers
    rq_open,            \* the receiver of the task's mpsc sender is alive
    rq_out,             \* Option<the last RequesterMessage sent>
    rq_stop,            \* Option<why fetch() returned>
    rq_pending,         \* history: requests sent whose response was not received yet
    rq_untried,         \* history: peers handed to the task and not requested since
    rq_rejected         \* history: peers whose response was rejected, not handed out since

coordVars == <<highest_session, session_window, candidate_votes, active_disputes, participate_sent>>
chainVars == <<chain_request, chain_reply>>
storeVars == <<data_col, meta_col, written, queued, pending, store_reply, in_flight>>
collatorVars == <<cg_config, cg_stop, cg_leaves, cg_inits>>
\* The variables of the subsystems modelled after the first three.
validationVars ==
    <<cv_stop, cv_message, cv_requests, cv_spawned, cv_backend, cv_reply, cv_awaiting, cv_conclude_sent>>
selectionVars ==
    <<cs_entries, cs_leaves, cs_finalized, cs_weights, ft_reply, cs_blocks_by_number, cs_walked>>
attachVars == <<ws_unix, ws_linked, ws_attached, worker_pc>>
protocolVars ==
    <<ws_mem, ws_events, host_pc, host_sent, host_result, worker_st, worker_work, worker_reported>>
workspaceVars == <<attachVars, protocolVars>>
requesterVars ==
    <<rq_pc, rq_peer, rq_new_peers, rq_tried_peers, rq_open, rq_out, rq_stop,
      rq_pending, rq_untried, rq_rejected>>
extVars == <<collatorVars, validationVars, selectionVars, workspaceVars, requesterVars>>
vars == <<coordVars, chainVars, storeVars, extVars>>

\* Option<T> is a sequence of length 0 (None) or 1 (Some).
None == <<>>
Some(x) == <<x>>
IsSome(o) == Len(o) = 1
Unwrap(o) == o[1]

(***************************************************************************)
(*                          DISPUTE COORDINATOR                            *)
(***************************************************************************)

DISPUTE_WINDOW == 6

\* Number of validators of every session (SessionInfo.validators.len()).
NumValidators == 3
\* Longest `statements` vector of one ImportStatements message.
MaxBatch == 2

Validators == 0 .. (NumValidators - 1)
\* Sessions and candidates the messages of the coordinator model speak about.
Sessions == {1, 8}
Candidates == {"cA"}
Pairs == Sessions \X Candidates
\* Validator indices whose key is in the subsystem's keystore.
LocalKeys == {0}

\* A SignedDisputeStatement with the ValidatorIndex it is imported under:
\* `valid` is the DisputeStatement variant, `public` identifies the validator
\* whose key signed it (validator i of the session has public key i).
Statement == [valid : BOOLEAN, idx : Validators, public : Validators]
HonestStatement == {s \in Statement : s.public = s.idx}

RECURSIVE SeqsUpTo(_, _)
SeqsUpTo(S, n) ==
    IF n = 0 THEN {<<>>}
    ELSE LET shorter == SeqsUpTo(S, n - 1)
         IN  shorter \cup {Append(q, x) : q \in {r \in shorter : Len(r) = n - 1}, x \in S}

\* The `statements` vectors of the ImportStatements messages of the model.
Batches == SeqsUpTo(HonestStatement, MaxBatch)

\* polkadot_primitives::v1::supermajority_threshold: n - byzantine_threshold(n).
supermajority_threshold(n) == n - ((IF n = 0 THEN 0 ELSE n - 1) \div 3)

EmptyVotes == [valid |-> <<>>, invalid |-> <<>>]

\* slice::binary_search_by_key(&val_index, |x| x.1) over positions left..right-1
\* (0-based): Ok(pos) is [found |-> TRUE], Err(pos) is [found |-> FALSE].
RECURSIVE binary_search_by_key(_, _, _, _)
binary_search_by_key(vec, key, left, right) ==
    IF left >= right THEN [found |-> FALSE, pos |-> left]
    ELSE LET mid == left + ((right - left) \div 2)
         IN  IF vec[mid + 1].idx < key THEN binary_search_by_key(vec, key, mid + 1, right)
             ELSE IF vec[mid + 1].idx > key THEN binary_search_by_key(vec, key, left, mid)
             ELSE [found |-> TRUE, pos |-> mid]

\* Vec::insert(pos, x), pos 0-based.
VecInsert(vec, pos, x) ==
    SubSeq(vec, 1, pos) \o <<x>> \o SubSeq(vec, pos + 1, Len(vec))

\* Mutant: "Ok(_) => return" is lost, a vote of an index already present is
\* inserted again at the position found.
insert_into_statement_vec_again(vec, val_index, val_signature) ==
    LET r == binary_search_by_key(vec, val_index, 0, Len(vec))
    IN  VecInsert(vec, r.pos, [idx |-> val_index, sig |-> val_signature])

\* Mutant: the new entry is pushed at the end instead of at the position found.
insert_into_statement_vec_push(vec, val_index, val_signature) ==
    LET r == binary_search_by_key(vec, val_index, 0, Len(vec))
    IN  IF r.found THEN vec
        ELSE Append(vec, [idx |-> val_index, sig |-> val_signature])

insert_into_statement_vec(vec, val_index, val_signature) ==
    LET r == binary_search_by_key(vec, val_index, 0, Len(vec))
    IN  IF r.found THEN vec
        ELSE VecInsert(vec, r.pos, [idx |-> val_index, sig |-> val_signature])

\* The loop "for (statement, val_index) in statements" of handle_import_statements.
RECURSIVE update_candidate_votes(_, _)
update_candidate_votes(votes, statements) ==
    IF statements = <<>> THEN votes
    ELSE LET s == Head(statements)
             next == IF s.valid
                     THEN [votes EXCEPT !.valid = insert_into_statement_vec(@, s.idx, s.public)]
                     ELSE [votes EXCEPT !.invalid = insert_into_statement_vec(@, s.idx, s.public)]
         IN  update_candidate_votes(next, Tail(statements))

\* RollingSessionWindow::session_info(session).is_some()
session_info_known(session) ==
    /\ IsSome(session_window)
    /\ Unwrap(session_window).earliest <= session
    /\ session <= Unwrap(session_window).latest

\* ".map(CandidateVotes::from).unwrap_or_else(|| CandidateVotes { .. })"
votes_or_empty(stored_votes) ==
    IF IsSome(stored_votes) THEN Unwrap(stored_votes) ELSE EmptyVotes

\* ".unwrap_or_default()" of the loaded ActiveDisputes
disputes_or_default(stored_active) ==
    IF IsSome(stored_active) THEN Unwrap(stored_active) ELSE {}

\* db::v1::load_candidate_votes(..).unwrap_or_else(empty)
load_votes(session, candidate_hash) ==
    votes_or_empty(candidate_votes[<<session, candidate_hash>>])

\* db::v1::load_active_disputes(..).unwrap_or_default().disputed
loaded_active_disputes == disputes_or_default(active_disputes)

\* ActiveDisputes::insert / ::delete: the new list and whether it changed.
active_insert(disputed, session, candidate_hash) ==
    [disputed |-> disputed \cup {<<session, candidate_hash>>},
     changed  |-> <<session, candidate_hash>> \notin disputed]

active_delete(disputed, session, candidate_hash) ==
    [disputed |-> disputed \ {<<session, candidate_hash>>},
     changed  |-> <<session, candidate_hash>> \in disputed]

\* ActiveDisputes::contains
active_contains(disputed, session, candidate_hash) ==
    <<session, candidate_hash>> \in disputed

\* C38 mutant: the changed list of active disputes is never put into the
\* transaction.
update_active_disputes_unwritten(stored_active, result) == stored_active

\* update_active_disputes: tx.put_active_disputes only when with_active reports a
\* change; the value of the active-disputes key after the transaction is written.
update_active_disputes(stored_active, result) ==
    IF result.changed THEN Some(result.disputed) ELSE stored_active

\* Mutant: a candidate counts as disputed as soon as it has a vote of either kind.
is_disputed_either(votes) == votes.valid # <<>> \/ votes.invalid # <<>>

was_undisputed(votes) == Len(votes.valid) = 0 \/ Len(votes.invalid) = 0
is_disputed(votes) == votes.valid # <<>> /\ votes.invalid # <<>>
concluded_valid(votes) == Len(votes.valid) >= supermajority_threshold(NumValidators)

\* Mutant: participation begins on every import that finds the candidate disputed.
begins_participation_again(old, votes) ==
    is_disputed(votes) /\ ~concluded_valid(votes)

\* "if freshly_disputed && !concluded_valid": add to active disputes, send Participate.
begins_participation(old, votes) ==
    (is_disputed(votes) /\ was_undisputed(old)) /\ ~concluded_valid(votes)

\* C30 mutant: the dispute is taken off the active disputes only when the
\* import that concludes it is also the one that began it.
ends_dispute_fresh(old, votes) ==
    concluded_valid(votes) /\ (is_disputed(votes) /\ was_undisputed(old))

\* "if concluded_valid && already_disputed": remove from active disputes.
ends_dispute(old, votes) ==
    concluded_valid(votes) /\ (is_disputed(votes) /\ ~was_undisputed(old))

\* Mutant: the two early returns are taken only before the first session is seen.
import_dropped_unseen(session) == highest_session = None

\* The two early returns of handle_import_statements: the session is older than
\* the dispute window, or the session window holds no info for it.
import_dropped(session) ==
    IF highest_session = None \/ session + DISPUTE_WINDOW < Unwrap(highest_session)
    THEN TRUE
    ELSE ~session_info_known(session)

\* What a run of handle_import_statements that passes the early returns writes
\* and sends, given the votes and the active disputes it finds in the store.
import_outcome(stored_votes, stored_active, candidate_hash, session, statements) ==
    LET old   == votes_or_empty(stored_votes)
        votes == update_candidate_votes(old, statements)
    IN  [votes       |-> Some(votes),
         active      |-> IF begins_participation(old, votes)
                         THEN update_active_disputes(stored_active,
                                  active_insert(disputes_or_default(stored_active),
                                                session, candidate_hash))
                         ELSE IF ends_dispute(old, votes)
                         THEN update_active_disputes(stored_active,
                                  active_delete(disputes_or_default(stored_active),
                                                session, candidate_hash))
                         ELSE stored_active,
         participate |-> IF begins_participation(old, votes) THEN 1 ELSE 0]

handle_import_statements(candidate_hash, session, statements) ==
    IF import_dropped(session)
    THEN UNCHANGED coordVars
    ELSE LET pair    == <<session, candidate_hash>>
             outcome == import_outcome(candidate_votes[pair], active_disputes,
                                       candidate_hash, session, statements)
         IN  /\ active_disputes' = outcome.active
             /\ participate_sent' = [participate_sent EXCEPT ![pair] = @ + outcome.participate]
             /\ candidate_votes' = [candidate_votes EXCEPT ![pair] = outcome.votes]
             /\ UNCHANGED <<highest_session, session_window>>

\* C31 mutant: the keystore is not asked, a statement is signed for every
\* validator index that has not voted yet.
RECURSIVE local_statements_any_key(_, _, _)
local_statements_any_key(index, voted_indices, valid) ==
    IF index >= NumValidators THEN <<>>
    ELSE IF index \in voted_indices
    THEN local_statements_any_key(index + 1, voted_indices, valid)
    ELSE <<[valid |-> valid, idx |-> index, public |-> index]>>
         \o local_statements_any_key(index + 1, voted_indices, valid)

\* The statements issue_local_statement signs: one per validator index, in
\* ascending order, whose key is in the keystore and which has not voted yet.
RECURSIVE local_statements(_, _, _)
local_statements(index, voted_indices, valid) ==
    IF index >= NumValidators THEN <<>>
    ELSE IF index \in voted_indices \/ index \notin LocalKeys
    THEN local_statements(index + 1, voted_indices, valid)
    ELSE <<[valid |-> valid, idx |-> index, public |-> index]>>
         \o local_statements(index + 1, voted_indices, valid)

\* CandidateVotes::voted_indices
voted_indices(votes) ==
    {votes.valid[i].idx : i \in 1 .. Len(votes.valid)}
        \cup {votes.invalid[i].idx : i \in 1 .. Len(votes.invalid)}

issue_local_statement(candidate_hash, session, valid) ==
    IF ~session_info_known(session)
    THEN UNCHANGED coordVars
    ELSE LET votes      == load_votes(session, candidate_hash)
             statements == local_statements(0, voted_indices(votes), valid)
         IN  IF statements # <<>>
             THEN handle_import_statements(candidate_hash, session, statements)
             ELSE UNCHANGED coordVars

\* First session of the window that ends at `session`.
window_start(session) ==
    IF session >= DISPUTE_WINDOW - 1 THEN session - (DISPUTE_WINDOW - 1) ELSE 0

\* RollingSessionWindow::cache_session_info_for_head for a leaf whose child
\* session is `session`: the window afterwards (Initialized, Advanced or Unchanged).
cache_session_info_for_head(session) ==
    IF session_window = None
    THEN Some([earliest |-> window_start(session), latest |-> session])
    ELSE IF Unwrap(session_window).latest >= session
    THEN session_window
    ELSE Some([earliest |-> window_start(session), latest |-> session])

\* db::v1::note_current_session: purge the sessions older than the window's lower bound.
note_current_session_votes(session) ==
    [p \in Pairs |-> IF p[1] < window_start(session) THEN None ELSE candidate_votes[p]]

note_current_session_active(session) ==
    IF IsSome(active_disputes)
    THEN Some({p \in Unwrap(active_disputes) : ~(p[1] < window_start(session))})
    ELSE None

\* handle_new_activations for one activated leaf.
handle_new_activations(session) ==
    /\ session_window' = cache_session_info_for_head(session)
    /\ IF session_window' # session_window
          /\ (highest_session = None \/ Unwrap(highest_session) < session)
       THEN /\ highest_session' = Some(session)
            /\ candidate_votes' = note_current_session_votes(session)
            /\ active_disputes' = note_current_session_active(session)
       ELSE UNCHANGED <<highest_session, candidate_votes, active_disputes>>
    /\ UNCHANGED participate_sent

CoordInit ==
    /\ highest_session = None
    /\ session_window = None
    /\ candidate_votes = [p \in Pairs |-> None]
    /\ active_disputes = None
    /\ participate_sent = [p \in Pairs |-> 0]

ChainIdle == chain_request = None /\ chain_reply = None

StoreIdle ==
    /\ data_col = <<>>
    /\ meta_col = <<>>
    /\ written = <<>>
    /\ queued = <<>>
    /\ pending = <<>>
    /\ store_reply = None
    /\ in_flight = <<>>

\* Collation generation not started.
CollatorIdle ==
    /\ cg_config = <<>>
    /\ cg_stop = "idle"
    /\ cg_leaves = <<>>
    /\ cg_inits = <<>>

\* Candidate validation not started.
ValidationIdle ==
    /\ cv_stop = "idle"
    /\ cv_message = <<>>
    /\ cv_requests = <<>>
    /\ cv_spawned = <<>>
    /\ cv_backend = <<>>
    /\ cv_reply = <<>>
    /\ cv_awaiting = <<>>
    /\ cv_conclude_sent = FALSE

\* Chain selection not started.
SelectionIdle ==
    /\ cs_entries = <<>>
    /\ cs_leaves = <<>>
    /\ cs_finalized = <<>>
    /\ cs_weights = <<>>
    /\ ft_reply = None
    /\ cs_blocks_by_number = <<>>
    /\ cs_walked = 0

WorkspaceIdle ==
    /\ ws_unix = TRUE
    /\ ws_linked = FALSE
    /\ ws_attached = FALSE
    /\ worker_pc = <<>>
    /\ ws_mem = <<>>
    /\ ws_events = <<>>
    /\ host_pc = "idle"
    /\ host_sent = <<>>
    /\ host_result = <<>>
    /\ worker_st = "idle"
    /\ worker_work = <<>>
    /\ worker_reported = <<>>

\* No fetch task started.
RequesterIdle ==
    /\ rq_pc = "idle"
    /\ rq_peer = <<>>
    /\ rq_new_peers = <<>>
    /\ rq_tried_peers = <<>>
    /\ rq_open = FALSE
    /\ rq_out = <<>>
    /\ rq_stop = <<>>
    /\ rq_pending = 0
    /\ rq_untried = {}
    /\ rq_rejected = {}

ExtIdle == CollatorIdle /\ ValidationIdle /\ SelectionIdle /\ WorkspaceIdle /\ RequesterIdle

\* A freshly started subsystem on an empty database; no query, no store in use.
SubsystemInit == CoordInit /\ ChainIdle /\ StoreIdle /\ ExtIdle

\* OverseerSignal::ActiveLeaves
ActiveLeaves(session) ==
    /\ handle_new_activations(session)
    /\ UNCHANGED <<chainVars, storeVars, extVars>>

\* DisputeCoordinatorMessage::ImportStatements
ImportStatements(candidate_hash, session, statements) ==
    /\ handle_import_statements(candidate_hash, session, statements)
    /\ UNCHANGED <<chainVars, storeVars, extVars>>

\* DisputeCoordinatorMessage::IssueLocalStatement
IssueLocalStatement(candidate_hash, session, valid) ==
    /\ issue_local_statement(candidate_hash, session, valid)
    /\ UNCHANGED <<chainVars, storeVars, extVars>>

\* The `statements` of the ImportStatements messages for a session: an import
\* that returns early never reads them, so one message stands for all of them.
ImportBatches(session) == IF import_dropped(session) THEN {<<>>} ELSE Batches

CoordNext ==
    \/ \E s \in Sessions : ActiveLeaves(s)
    \/ \E p \in Pairs : \E b \in ImportBatches(p[1]) : ImportStatements(p[2], p[1], b)
    \/ \E p \in Pairs, v \in BOOLEAN : IssueLocalStatement(p[2], p[1], v)

SpecCoordinator == SubsystemInit /\ [][CoordNext]_vars

(***************************************************************************)
(*                      DetermineUndisputedChain                           *)
(***************************************************************************)

\* Largest base_number and longest block_descriptions of a request.
MaxBase == 1
MaxBlocks == 3

ChainSessions == {1, 2}
ChainCandidates == {"cA", "cB"}
ChainPairs == ChainSessions \X ChainCandidates

\* The hash of the relay-chain block with the given number on the described chain.
BlockHash(number) == <<"block", number>>

\* The (Hash, SessionIndex, Vec<CandidateHash>) of one described block.
BlockDescription(number) ==
    [hash : {BlockHash(number)}, session : ChainSessions, candidates : SUBSET ChainCandidates]

\* block_descriptions of the consecutive blocks base_number + 1 .. base_number + len.
RECURSIVE BlockDescriptions(_, _)
BlockDescriptions(base_number, len) ==
    IF len = 0 THEN {<<>>}
    ELSE {Append(q, d) : q \in BlockDescriptions(base_number, len - 1),
                         d \in BlockDescription(base_number + len)}

ChainRequests ==
    UNION {[base_number : {b}, block_descriptions : BlockDescriptions(b, n)] :
               b \in 0 .. MaxBase, n \in 0 .. MaxBlocks}

\* Replies: Ok(None), Ok(Some((number, hash))), or the thread panicking on an
\* out-of-bounds index.
ReplyNone == <<"None">>
ReplySome(number, hash) == <<"Some", number, hash>>
ReplyPanic == <<"Panic">>

\* Mutant: the candidate is looked up under any session, not the block's session.
any_disputed_any_session(disputed, description) ==
    \E c \in description.candidates : \E s \in ChainSessions : active_contains(disputed, s, c)

\* "candidates.iter().any(|c| active_disputes.contains(*session, *c))"
any_disputed(disputed, description) ==
    \E c \in description.candidates : active_contains(disputed, description.session, c)

\* The loop of determine_undisputed_chain from 0-based index i on.
RECURSIVE undisputed_chain_from(_, _, _, _, _)
undisputed_chain_from(disputed, base_number, block_descriptions, i, last) ==
    IF i >= Len(block_descriptions) THEN last
    ELSE IF any_disputed(disputed, block_descriptions[i + 1])
    THEN IF i = 0 THEN ReplyNone
         ELSE IF base_number + i >= Len(block_descriptions) THEN ReplyPanic
         ELSE ReplySome(base_number + i, block_descriptions[base_number + i + 1].hash)
    ELSE undisputed_chain_from(disputed, base_number, block_descriptions, i + 1, last)

determine_undisputed_chain(stored_active, base_number, block_descriptions) ==
    LET last == IF block_descriptions = <<>> THEN ReplyNone
                ELSE ReplySome(base_number + Len(block_descriptions),
                               block_descriptions[Len(block_descriptions)].hash)
    IN  IF stored_active = None THEN last
        ELSE IF Unwrap(stored_active) = {} THEN last
        ELSE undisputed_chain_from(Unwrap(stored_active), base_number, block_descriptions, 0, last)

CoordIdle ==
    /\ highest_session = None
    /\ session_window = None
    /\ candidate_votes = [p \in Pairs |-> None]
    /\ participate_sent = [p \in Pairs |-> 0]

\* The store holds any set of active disputes (each pair enters it by an import
\* that makes it freshly disputed) when the request arrives.
ChainInit ==
    /\ CoordIdle
    /\ active_disputes \in {None} \cup {Some(d) : d \in SUBSET ChainPairs}
    /\ ChainIdle
    /\ StoreIdle
    /\ ExtIdle

\* DisputeCoordinatorMessage::DetermineUndisputedChain
DetermineUndisputedChain(base_number, block_descriptions) ==
    /\ chain_request = None
    /\ chain_request' = Some([base_number |-> base_number, block_descriptions |-> block_descriptions])
    /\ chain_reply' = Some(determine_undisputed_chain(active_disputes, base_number, block_descriptions))
    /\ UNCHANGED <<coordVars, storeVars, extVars>>

ChainNext ==
    /\ chain_request = None
    /\ \E r \in ChainRequests : DetermineUndisputedChain(r.base_number, r.block_descriptions)

SpecChain == ChainInit /\ [][ChainNext]_vars

(***************************************************************************)
(*                          AVAILABILITY STORE                             *)
(***************************************************************************)

\* Longest candidate list kept under one relay parent in the META column.
MaxMeta == 2

RelayParents == {"p1", "p2"}
StoreCandidates == {"c1", "c2"}
QueueRoots == {"q1"}
\* BlockData(Vec<u8>) values and Vec<Message> values handed to make_available.
BlockDatas == {<<7>>, <<7, 8>>}
MessageQueues == {<< <<1>> >>, << <<1>>, <<2, 3>> >>}

\* block_data_key: (relay_parent, candidate_hash, 0i8).encode(), 65 bytes.
block_data_key(relay_parent, candidate_hash) == <<relay_parent, candidate_hash, 0>>
\* root.as_ref(): the 32 bytes of the queue root.
queue_key(root) == <<root>>

DataKeys ==
    {block_data_key(p, c) : p \in RelayParents, c \in StoreCandidates}
        \cup {queue_key(r) : r \in QueueRoots}

\* SCALE encoding of a byte vector or of a vector of hashes: the length, then the items.
encode_vec(v) == <<Len(v)>> \o v

\* Decode of the same: reads the length and that many items, ignores what follows;
\* an error (None here) when the input is shorter than the length says.
decode_vec(raw) ==
    IF raw = <<>> THEN None
    ELSE IF Len(raw) - 1 < raw[1] THEN None
    ELSE Some(SubSeq(raw, 2, 1 + raw[1]))

\* SCALE encoding of Vec<Message>: the count, then each message as a byte vector.
RECURSIVE encode_each(_)
encode_each(messages) ==
    IF messages = <<>> THEN <<>>
    ELSE encode_vec(Head(messages)) \o encode_each(Tail(messages))

encode_messages(messages) == <<Len(messages)>> \o encode_each(messages)

RECURSIVE decode_each(_, _)
decode_each(raw, count) ==
    IF count = 0 THEN Some(<<>>)
    ELSE LET first == decode_vec(raw)
         IN  IF first = None THEN None
             ELSE LET rest == decode_each(SubSeq(raw, 2 + raw[1], Len(raw)), count - 1)
                  IN  IF rest = None THEN None
                      ELSE Some(<<Unwrap(first)>> \o Unwrap(rest))

decode_messages(raw) ==
    IF raw = <<>> THEN None ELSE decode_each(Tail(raw), raw[1])

\* The candidate list read from the META column: "Ok(None) => Vec::new()".
meta_list(parent) ==
    IF IsSome(meta_col[parent]) THEN Unwrap(decode_vec(Unwrap(meta_col[parent]))) ELSE <<>>

\* Mutant: a queue is written only when nothing is stored under its root yet.
RECURSIVE put_queues_absent(_, _)
put_queues_absent(col, outgoing_queues) ==
    IF outgoing_queues = <<>> THEN col
    ELSE put_queues_absent(
             IF IsSome(col[queue_key(Head(outgoing_queues)[1])]) THEN col
             ELSE [col EXCEPT ![queue_key(Head(outgoing_queues)[1])] =
                                  Some(encode_messages(Head(outgoing_queues)[2]))],
             Tail(outgoing_queues))

\* The puts of "for (root, messages) in outgoing_queues", in order, on a column.
RECURSIVE put_queues(_, _)
put_queues(col, outgoing_queues) ==
    IF outgoing_queues = <<>> THEN col
    ELSE put_queues(
             [col EXCEPT ![queue_key(Head(outgoing_queues)[1])] =
                             Some(encode_messages(Head(outgoing_queues)[2]))],
             Tail(outgoing_queues))

\* What a caller of the store gets when a decode fails:
\* .expect("all stored data serialized correctly; qed") panics.
StorePanic == <<"panic", "all stored data serialized correctly; qed">>

\* Store::block_data, the read of the database succeeding.
block_data(relay_parent, candidate_hash) ==
    LET raw == data_col[block_data_key(relay_parent, candidate_hash)]
    IN  IF raw = None THEN None
        ELSE IF decode_vec(Unwrap(raw)) = None THEN StorePanic
        ELSE decode_vec(Unwrap(raw))

\* Store::queue_by_root, the read of the database succeeding.
queue_by_root(queue_root) ==
    LET raw == data_col[queue_key(queue_root)]
    IN  IF raw = None THEN None
        ELSE IF decode_messages(Unwrap(raw)) = None THEN StorePanic
        ELSE decode_messages(Unwrap(raw))

\* Mutant: block data already stored under the key is not replaced.
make_available_data_keep(data) ==
    LET key == block_data_key(data.relay_parent, data.candidate_hash)
        with_block == IF IsSome(data_col[key]) THEN data_col
                      ELSE [data_col EXCEPT ![key] = Some(encode_vec(data.block_data))]
    IN  IF IsSome(data.outgoing_queues)
        THEN put_queues(with_block, Unwrap(data.outgoing_queues))
        ELSE with_block

\* The DATA column after a successful Store::make_available.
make_available_data(data) ==
    LET with_block == [data_col EXCEPT
                          ![block_data_key(data.relay_parent, data.candidate_hash)] =
                              Some(encode_vec(data.block_data))]
    IN  IF IsSome(data.outgoing_queues)
        THEN put_queues(with_block, Unwrap(data.outgoing_queues))
        ELSE with_block

\* The META column after a successful Store::make_available.
make_available_meta(data) ==
    [meta_col EXCEPT ![data.relay_parent] =
        Some(encode_vec(Append(meta_list(data.relay_parent), data.candidate_hash)))]

\* Mutant: the test "!finalized_candidates.contains(..)" has lost its negation.
candidates_finalized_data_inverted(parent, finalized_candidates) ==
    LET v == meta_list(parent)
    IN  [k \in DataKeys |->
            IF \E i \in 1 .. Len(v) :
                   /\ v[i] \in finalized_candidates
                   /\ k = block_data_key(parent, v[i])
            THEN None
            ELSE data_col[k]]

\* The DATA column after a successful Store::candidates_finalized.
candidates_finalized_data(parent, finalized_candidates) ==
    LET v == meta_list(parent)
    IN  [k \in DataKeys |->
            IF \E i \in 1 .. Len(v) :
                   /\ v[i] \notin finalized_candidates
                   /\ k = block_data_key(parent, v[i])
            THEN None
            ELSE data_col[k]]

\* C28 mutant: the call takes the first candidate off the parent's list and
\* leaves the rest of the list in the META column.
candidates_finalized_meta_first(parent) ==
    [meta_col EXCEPT ![parent] =
        IF Len(meta_list(parent)) <= 1 THEN None
        ELSE Some(encode_vec(Tail(meta_list(parent))))]

\* The META column after a successful Store::candidates_finalized.
candidates_finalized_meta(parent) == [meta_col EXCEPT ![parent] = None]

\* History: the queue entries written so far, the last write of a root winning.
RECURSIVE note_queues(_, _)
note_queues(q, outgoing_queues) ==
    IF outgoing_queues = <<>> THEN q
    ELSE note_queues([q EXCEPT ![Head(outgoing_queues)[1]] = Some(Head(outgoing_queues)[2])],
                     Tail(outgoing_queues))

Never == <<"Never">>
Written(bytes) == <<"Written", bytes>>
Dropped == <<"Dropped">>
Expired == <<"Expired">>

\* The Data values handed to make_available.
OutgoingQueues ==
    {None, Some(<<>>)} \cup {Some(<< <<r, m>> >>) : r \in QueueRoots, m \in MessageQueues}

Datas ==
    [relay_parent : RelayParents, candidate_hash : StoreCandidates,
     block_data : BlockDatas, outgoing_queues : OutgoingQueues]

StoreInit ==
    /\ CoordInit
    /\ ChainIdle
    /\ data_col = [k \in DataKeys |-> None]
    /\ meta_col = [p \in RelayParents |-> None]
    /\ written = [k \in RelayParents \X StoreCandidates |-> Never]
    /\ queued = [r \in QueueRoots |-> None]
    /\ pending = [p \in RelayParents |-> {}]
    /\ store_reply = None
    /\ in_flight = <<>>
    /\ ExtIdle

\* Store::make_available(data), the write succeeding.
make_available(data) ==
    /\ Len(meta_list(data.relay_parent)) < MaxMeta
    /\ data_col' = make_available_data(data)
    /\ meta_col' = make_available_meta(data)
    /\ written' = [written EXCEPT ![<<data.relay_parent, data.candidate_hash>>] =
                                      Written(data.block_data)]
    /\ queued' = IF IsSome(data.outgoing_queues)
                 THEN note_queues(queued, Unwrap(data.outgoing_queues))
                 ELSE queued
    /\ pending' = [pending EXCEPT ![data.relay_parent] = @ \cup {data.candidate_hash}]
    /\ UNCHANGED <<store_reply, in_flight>>
    /\ UNCHANGED <<coordVars, chainVars, extVars>>

\* Store::candidates_finalized(parent, finalized_candidates), the write succeeding.
candidates_finalized(parent, finalized_candidates) ==
    /\ data_col' = candidates_finalized_data(parent, finalized_candidates)
    /\ meta_col' = candidates_finalized_meta(parent)
    /\ written' = [k \in RelayParents \X StoreCandidates |->
                      IF k[1] # parent \/ k[2] \in finalized_candidates THEN written[k]
                      ELSE IF k[2] \in pending[parent] THEN Dropped
                      ELSE IF written[k] = Never \/ written[k] = Dropped THEN written[k]
                      ELSE Expired]
    /\ pending' = [pending EXCEPT ![parent] = {}]
    /\ UNCHANGED <<queued, store_reply, in_flight>>
    /\ UNCHANGED <<coordVars, chainVars, extVars>>

StoreNext ==
    \/ \E d \in Datas : make_available(d)
    \/ \E p \in RelayParents, S \in SUBSET StoreCandidates : candidates_finalized(p, S)

SpecStore == StoreInit /\ [][StoreNext]_vars

\* The bytes a database opened by Store::new can hold under a key of the
\* DATA column: nothing, or bytes of which some are no encoding of a value.
StoredBytes == {None, Some(<<>>), Some(<<0>>), Some(<<2, 7>>)}

\* Store::new(config) on a database that exists at the path.
OpenedInit ==
    /\ CoordInit
    /\ ChainIdle
    /\ data_col \in [DataKeys -> StoredBytes]
    /\ meta_col = [p \in RelayParents |-> None]
    /\ written = [k \in RelayParents \X StoreCandidates |-> Never]
    /\ queued = [r \in QueueRoots |-> None]
    /\ pending = [p \in RelayParents |-> {}]
    /\ store_reply = None
    /\ in_flight = <<>>
    /\ ExtIdle

\* A call of Store::block_data; when the read of the database fails the
\* error is logged and the result is None.
BlockDataQuery(relay_parent, candidate_hash, read_fails) ==
    /\ store_reply' = Some([result |-> IF read_fails THEN None
                                      ELSE block_data(relay_parent, candidate_hash),
                            warned |-> read_fails])
    /\ UNCHANGED <<data_col, meta_col, written, queued, pending, in_flight>>
    /\ UNCHANGED <<coordVars, chainVars, extVars>>

\* A call of Store::queue_by_root, likewise.
QueueByRootQuery(queue_root, read_fails) ==
    /\ store_reply' = Some([result |-> IF read_fails THEN None ELSE queue_by_root(queue_root),
                            warned |-> read_fails])
    /\ UNCHANGED <<data_col, meta_col, written, queued, pending, in_flight>>
    /\ UNCHANGED <<coordVars, chainVars, extVars>>

OpenedNext ==
    \/ \E p \in RelayParents, c \in StoreCandidates, read_fails \in BOOLEAN :
           BlockDataQuery(p, c, read_fails)
    \/ \E r \in QueueRoots, read_fails \in BOOLEAN : QueueByRootQuery(r, read_fails)

SpecOpened == OpenedInit /\ [][OpenedNext]_vars

\* The store used through cloned handles: the clones share the database
\* (Arc<dyn KeyValueDB>), and a call of make_available is two operations on
\* it, the get of the META list and the write of the transaction.
Handles == {1, 2}

\* The Data values the concurrent callers hand in: block data of the
\* candidates at one relay parent, without outgoing queues.
SharedDatas ==
    {d \in Datas : d.relay_parent = "p1" /\ d.outgoing_queues = None /\ d.block_data = <<7>>}

SharedInit ==
    /\ CoordInit
    /\ ChainIdle
    /\ data_col = [k \in DataKeys |-> None]
    /\ meta_col = [p \in RelayParents |-> None]
    /\ written = [k \in RelayParents \X StoreCandidates |-> Never]
    /\ queued = [r \in QueueRoots |-> None]
    /\ pending = [p \in RelayParents |-> {}]
    /\ store_reply = None
    /\ in_flight = [h \in Handles |-> None]
    /\ ExtIdle

\* "tx.put_vec(columns::META, ..)" with the list v the call has read.
put_meta(v, data) ==
    [meta_col EXCEPT ![data.relay_parent] = Some(encode_vec(Append(v, data.candidate_hash)))]

\* make_available(data) through the handle: "self.inner.get(columns::META, ..)".
MakeAvailableGet(handle, data) ==
    /\ in_flight[handle] = None
    /\ Len(meta_list(data.relay_parent)) < MaxMeta
    /\ in_flight' = [in_flight EXCEPT ![handle] =
                         Some([data |-> data, v |-> meta_list(data.relay_parent)])]
    /\ UNCHANGED <<data_col, meta_col, written, queued, pending, store_reply>>
    /\ UNCHANGED <<coordVars, chainVars, extVars>>

\* The rest of that call: the transaction is built on the list read and
\* written, "self.inner.write(tx)".
MakeAvailableWrite(handle) ==
    /\ in_flight[handle] # None
    /\ LET call == Unwrap(in_flight[handle])
           data == call.data
       IN  /\ data_col' = make_available_data(data)
           /\ meta_col' = put_meta(call.v, data)
           /\ written' = [written EXCEPT ![<<data.relay_parent, data.candidate_hash>>] =
                                             Written(data.block_data)]
           /\ queued' = IF IsSome(data.outgoing_queues)
                        THEN note_queues(queued, Unwrap(data.outgoing_queues))
                        ELSE queued
           /\ pending' = [pending EXCEPT ![data.relay_parent] = @ \cup {data.candidate_hash}]
    /\ in_flight' = [in_flight EXCEPT ![handle] = None]
    /\ UNCHANGED store_reply
    /\ UNCHANGED <<coordVars, chainVars, extVars>>

SharedNext ==
    \/ \E handle \in Handles, d \in SharedDatas : MakeAvailableGet(handle, d)
    \/ \E handle \in Handles : MakeAvailableWrite(handle)
    \/ \E p \in RelayParents, S \in SUBSET StoreCandidates : candidates_finalized(p, S)

SpecShared == SharedInit /\ [][SharedNext]_vars

\* The coordinator receiving statements whose signer need not be the validator
\* of the claimed index, one statement per message, in session 1.
ForgedBatches == {<<s>> : s \in Statement}

ForgedNext ==
    \/ ActiveLeaves(1)
    \/ \E p \in Pairs : \E b \in (IF import_dropped(p[1]) THEN {<<>>} ELSE ForgedBatches) :
           ImportStatements(p[2], p[1], b)
    \/ \E p \in Pairs, v \in BOOLEAN : IssueLocalStatement(p[2], p[1], v)

SpecForged == SubsystemInit /\ [][ForgedNext]_vars

\* ---- the coordinator with failing requests and failing database writes ----

\* run: run_iteration returned an Err that is not a Context error; the error is
\* traced and run_iteration is called again, which builds a new State.
run_iteration_again ==
    /\ highest_session' = None
    /\ session_window' = None

\* OverseerSignal::ActiveLeaves whose ChainApiMessage::BlockHeader request for
\* the first activated leaf is answered with an error, or whose reply sender is
\* dropped: "rx.await??" returns the error out of handle_new_activations and
\* out of run_iteration.
HeaderRequestFails ==
    /\ run_iteration_again
    /\ UNCHANGED <<candidate_votes, active_disputes, participate_sent>>
    /\ UNCHANGED <<chainVars, storeVars, extVars>>

\* ImportStatements whose "tx.write(store, ..)?" fails: the Participate of a
\* fresh dispute was sent before, nothing of the transaction is stored, and
\* the error leaves run_iteration.
ImportWriteFails(candidate_hash, session, statements) ==
    /\ ~import_dropped(session)
    /\ LET pair    == <<session, candidate_hash>>
           outcome == import_outcome(candidate_votes[pair], active_disputes,
                                     candidate_hash, session, statements)
       IN  participate_sent' = [participate_sent EXCEPT ![pair] = @ + outcome.participate]
    /\ run_iteration_again
    /\ UNCHANGED <<candidate_votes, active_disputes>>
    /\ UNCHANGED <<chainVars, storeVars, extVars>>

\* Two Participate messages for a pair are enough to tell a repeated one.
MaxParticipate == 2

\* The leaves activated in this specification are all of session 1.
FailingNext ==
    \/ ActiveLeaves(1)
    \/ \E p \in Pairs : \E b \in ImportBatches(p[1]) : ImportStatements(p[2], p[1], b)
    \/ \E p \in Pairs, v \in BOOLEAN : IssueLocalStatement(p[2], p[1], v)
    \/ HeaderRequestFails
    \/ \E p \in Pairs : \E b \in Batches :
           participate_sent[p] < MaxParticipate /\ ImportWriteFails(p[2], p[1], b)

SpecFailing == SubsystemInit /\ [][FailingNext]_vars

(***************************************************************************)
(*                          COLLATION GENERATION                           *)
(***************************************************************************)

\* Longest availability_cores vector the runtime replies with.
MaxCores == 2

CgLeaves == {"l1", "l2"}
ParaIds == {1, 2}

\* One element of the availability_cores reply, together with what the runtime
\* replies to the local-validation-data request made for it (if one is made):
\* Ok(Some(_)), Ok(None), or an error (failed request or canceled channel).
\* The three replies are told apart for para 1.
CoreInputs ==
    {[core |-> "Free", para |-> 0, local |-> "none"],
     [core |-> "Occupied", para |-> 1, local |-> "none"],
     [core |-> "Scheduled", para |-> 2, local |-> "some"]}
        \cup [core : {"Scheduled"}, para : {1}, local : {"some", "none", "err"}]

\* What the runtime replies for one relay parent: `early_err` is an error of the
\* global-validation-data, availability-cores or validators request.
LeafReplies ==
    {[early_err |-> TRUE, cores |-> <<>>]}
        \cup [early_err : {FALSE}, cores : SeqsUpTo(CoreInputs, MaxCores)]

\* The replies for a relay parent with at most one availability core.
ShortLeafReplies == {r \in LeafReplies : Len(r.cores) <= 1}

\* The `activated` of an ActiveLeaves signal with the runtime's replies: the
\* next one or two relay parents; they are activated once each, in the order
\* l1, l2, and l2 has at most one core.
Activations(fresh) ==
    IF fresh = {} THEN {}
    ELSE IF "l1" \in fresh
    THEN {<<[leaf |-> "l1", reply |-> r]>> : r \in LeafReplies}
             \cup {<<[leaf |-> "l1", reply |-> r1], [leaf |-> "l2", reply |-> r2]>> :
                       r1 \in LeafReplies, r2 \in ShortLeafReplies}
    ELSE {<<[leaf |-> "l2", reply |-> r]>> : r \in ShortLeafReplies}

\* The relay parents no ActiveLeaves signal has activated yet.
FreshLeaves == {l \in CgLeaves : ~cg_leaves[l].activated}

\* What is on record for one core of an activated relay parent: the CoreState,
\* the local-validation-data requests made for it, the reply to them, the
\* DistributeCollation messages forwarded and the state of the task spawned for
\* it: "none", "spawned", "failed" (an error was logged and no message will
\* come), "queued" (its message is in the channel) or "forwarded".
CoreRecord(input, requests, data, task) ==
    [core |-> input.core, para |-> input.para, requests |-> requests,
     data |-> data, task |-> task, distributed |-> 0]

\* A core the loop passes over or never reaches.
passed_over(input) == CoreRecord(input, 0, "unrequested", "none")

RECURSIVE passed_over_from(_, _)
passed_over_from(cores, i) ==
    IF i > Len(cores) THEN <<>>
    ELSE <<passed_over(cores[i])>> \o passed_over_from(cores, i + 1)

\* Mutant: the comparison with config.para_id is lost.
core_matches_any_para(para_id, input) == input.core = "Scheduled"

\* "CoreState::Scheduled(scheduled_core)" with "scheduled_core.para_id == config.para_id"
core_matches(para_id, input) == input.core = "Scheduled" /\ input.para = para_id

\* "for core in availability_cores" from the 1-based position i on: the records
\* of the cores and whether the loop returned an error.
RECURSIVE for_core(_, _, _)
for_core(para_id, cores, i) ==
    IF i > Len(cores) THEN [err |-> FALSE, cores |-> <<>>]
    ELSE IF ~core_matches(para_id, cores[i])
    THEN LET rest == for_core(para_id, cores, i + 1)
         IN  [rest EXCEPT !.cores = <<passed_over(cores[i])>> \o @]
    ELSE IF cores[i].local = "err"
    THEN [err   |-> TRUE,
          cores |-> <<CoreRecord(cores[i], 1, "err", "none")>>
                        \o passed_over_from(cores, i + 1)]
    ELSE IF cores[i].local = "none"
    THEN LET rest == for_core(para_id, cores, i + 1)
         IN  [rest EXCEPT !.cores = <<CoreRecord(cores[i], 1, "none", "none")>> \o @]
    ELSE LET rest == for_core(para_id, cores, i + 1)
         IN  [rest EXCEPT !.cores = <<CoreRecord(cores[i], 1, "some", "spawned")>> \o @]

\* "for relay_parent in activated" from the 1-based position k on: the leaf
\* records afterwards and whether handle_new_activations returned an error.
RECURSIVE for_relay_parent(_, _, _, _)
for_relay_parent(para_id, activated, k, leaves) ==
    IF k > Len(activated) THEN [err |-> FALSE, leaves |-> leaves]
    ELSE IF activated[k].reply.early_err
    THEN [err    |-> TRUE,
          leaves |-> [leaves EXCEPT ![activated[k].leaf] = [activated |-> TRUE, cores |-> <<>>]]]
    ELSE LET done == for_core(para_id, activated[k].reply.cores, 1)
             now  == [leaves EXCEPT ![activated[k].leaf] =
                                        [activated |-> TRUE, cores |-> done.cores]]
         IN  IF done.err THEN [err |-> TRUE, leaves |-> now]
             ELSE for_relay_parent(para_id, activated, k + 1, now)

\* handle_new_activations of collation generation.
cg_handle_new_activations(para_id, activated) ==
    for_relay_parent(para_id, activated, 1, cg_leaves)

\* The leaves of an update that reaches the subsystem before it has a config.
RECURSIVE note_activated(_, _, _)
note_activated(activated, k, leaves) ==
    IF k > Len(activated) THEN leaves
    ELSE note_activated(activated, k + 1,
             [leaves EXCEPT ![activated[k].leaf] = [activated |-> TRUE, cores |-> <<>>]])

\* Mutant: a later Initialize replaces the config and the subsystem goes on.
initialize_replace(stored_config, config) ==
    [config |-> Some(config), break |-> FALSE]

\* handle_incoming, Initialize(config): the config afterwards and the value returned.
initialize(stored_config, config) ==
    IF IsSome(stored_config)
    THEN [config |-> stored_config, break |-> TRUE]
    ELSE [config |-> Some(config), break |-> FALSE]

CollatorInit ==
    /\ CoordInit
    /\ ChainIdle
    /\ StoreIdle
    /\ cg_config = None
    /\ cg_stop = "running"
    /\ cg_leaves = [l \in CgLeaves |-> [activated |-> FALSE, cores |-> <<>>]]
    /\ cg_inits = <<>>
    /\ ValidationIdle
    /\ SelectionIdle
    /\ WorkspaceIdle
    /\ RequesterIdle

\* CollationGenerationMessage::Initialize(config)
Initialize(config) ==
    /\ cg_stop = "running"
    /\ cg_config' = initialize(cg_config, config).config
    /\ cg_stop' = IF initialize(cg_config, config).break THEN "double_init" ELSE "running"
    /\ cg_inits' = Append(cg_inits, config)
    /\ UNCHANGED cg_leaves
    /\ UNCHANGED <<coordVars, chainVars, storeVars, validationVars, selectionVars, workspaceVars, requesterVars>>

\* OverseerSignal::ActiveLeaves in collation generation
CgActiveLeaves(activated) ==
    /\ cg_stop = "running"
    /\ IF IsSome(cg_config)
       THEN LET done == cg_handle_new_activations(Unwrap(cg_config), activated)
            IN  /\ cg_leaves' = done.leaves
                /\ cg_stop' = IF done.err THEN "activation_error" ELSE "running"
       ELSE /\ cg_leaves' = note_activated(activated, 1, cg_leaves)
            /\ UNCHANGED cg_stop
    /\ UNCHANGED <<cg_config, cg_inits>>
    /\ UNCHANGED <<coordVars, chainVars, storeVars, validationVars, selectionVars, workspaceVars, requesterVars>>

\* OverseerSignal::Conclude
Conclude ==
    /\ cg_stop = "running"
    /\ cg_stop' = "concluded"
    /\ UNCHANGED <<cg_config, cg_leaves, cg_inits>>
    /\ UNCHANGED <<coordVars, chainVars, storeVars, validationVars, selectionVars, workspaceVars, requesterVars>>

\* OverseerSignal::BlockFinalized
CgBlockFinalized ==
    /\ cg_stop = "running"
    /\ UNCHANGED vars

\* ctx.recv() returning an error
RecvError ==
    /\ cg_stop = "running"
    /\ cg_stop' = "stopped"
    /\ UNCHANGED <<cg_config, cg_leaves, cg_inits>>
    /\ UNCHANGED <<coordVars, chainVars, storeVars, validationVars, selectionVars, workspaceVars, requesterVars>>

set_task(leaf, i, task) == [cg_leaves EXCEPT ![leaf].cores[i].task = task]

\* The spawned task: erasure_root fails, the error is logged and the task returns.
TaskErasureFails(leaf, i) ==
    /\ cg_leaves[leaf].cores[i].task = "spawned"
    /\ cg_leaves' = set_task(leaf, i, "failed")
    /\ UNCHANGED <<cg_config, cg_stop, cg_inits>>
    /\ UNCHANGED <<coordVars, chainVars, storeVars, validationVars, selectionVars, workspaceVars, requesterVars>>

\* The spawned task: the receipt is built and sent on the channel to the run
\* loop; the send fails when the run loop has dropped the receiver.
TaskSends(leaf, i) ==
    /\ cg_leaves[leaf].cores[i].task = "spawned"
    /\ cg_leaves' = set_task(leaf, i, IF cg_stop = "running" THEN "queued" ELSE "failed")
    /\ UNCHANGED <<cg_config, cg_stop, cg_inits>>
    /\ UNCHANGED <<coordVars, chainVars, storeVars, validationVars, selectionVars, workspaceVars, requesterVars>>

\* C26 mutant: the message of a task is forwarded whether the run loop is
\* still there or not.
ForwardWithoutLoop(leaf, i) ==
    /\ cg_leaves[leaf].cores[i].task = "queued"
    /\ cg_leaves' = [cg_leaves EXCEPT ![leaf].cores[i].task = "forwarded",
                                      ![leaf].cores[i].distributed = @ + 1]
    /\ UNCHANGED <<cg_config, cg_stop, cg_inits>>
    /\ UNCHANGED <<coordVars, chainVars, storeVars, validationVars, selectionVars, workspaceVars, requesterVars>>

\* run: a message received from the channel is forwarded with ctx.send_message.
Forward(leaf, i) ==
    /\ cg_stop = "running"
    /\ cg_leaves[leaf].cores[i].task = "queued"
    /\ cg_leaves' = [cg_leaves EXCEPT ![leaf].cores[i].task = "forwarded",
                                      ![leaf].cores[i].distributed = @ + 1]
    /\ UNCHANGED <<cg_config, cg_stop, cg_inits>>
    /\ UNCHANGED <<coordVars, chainVars, storeVars, validationVars, selectionVars, workspaceVars, requesterVars>>

\* run: ctx.send_message fails, the loop breaks.
ForwardFails(leaf, i) ==
    /\ cg_stop = "running"
    /\ cg_leaves[leaf].cores[i].task = "queued"
    /\ cg_leaves' = set_task(leaf, i, "failed")
    /\ cg_stop' = "stopped"
    /\ UNCHANGED <<cg_config, cg_inits>>
    /\ UNCHANGED <<coordVars, chainVars, storeVars, validationVars, selectionVars, workspaceVars, requesterVars>>

CollatorNext ==
    \/ \E c \in ParaIds : Initialize(c)
    \/ cg_stop = "running" /\ \E a \in Activations(FreshLeaves) : CgActiveLeaves(a)
    \/ Conclude
    \/ CgBlockFinalized
    \/ RecvError
    \/ \E l \in CgLeaves : \E i \in 1 .. Len(cg_leaves[l].cores) : TaskErasureFails(l, i)
    \/ \E l \in CgLeaves : \E i \in 1 .. Len(cg_leaves[l].cores) : TaskSends(l, i)
    \/ \E l \in CgLeaves : \E i \in 1 .. Len(cg_leaves[l].cores) : Forward(l, i)
    \/ \E l \in CgLeaves : \E i \in 1 .. Len(cg_leaves[l].cores) : ForwardFails(l, i)

SpecCollator == CollatorInit /\ [][CollatorNext]_vars

(***************************************************************************)
(*                          CANDIDATE VALIDATION                           *)
(***************************************************************************)

\* The largest head data and the largest new validation code the relay chain
\* accepts (TransientValidationData.max_head_data_size, .max_code_size).
MaxSize == 1

\* pov.hash() and persisted.hash(): a hash is named by what it is the hash of.
hash(x) == <<"hash", x>>

\* The candidate descriptors received: declared collator alice, persisted
\* validation data "d1", with the hash of either proof of validity and a
\* signature of either collator over the descriptor's own payload.
Descriptors ==
    {[collator |-> "alice",
      persisted_validation_data_hash |-> hash("d1"),
      pov_hash |-> hash(p),
      signature |-> <<"sig", k, <<hash("d1"), hash(p)>>>>] : p \in {"pov1", "pov2"}, k \in {"alice", "bob"}}

\* What ValidationBackend::validate can return:
\* Result<WasmValidationResult, ValidationError>. Head data and code are
\* modelled by their lengths; the upward messages are left out.
BackendResults ==
    LET sizes == 0 .. (MaxSize + 1)
        WasmInvalidCandidates ==
            {<<"Timeout">>, <<"ParamsTooLarge", MaxSize + 1>>, <<"CodeTooLarge", MaxSize + 1>>,
             <<"BadReturn">>, <<"WasmExecutor", "trap">>, <<"ExternalWasmExecutor", "trap">>}
    IN  {<<"Err", <<"InvalidCandidate", k>>>> : k \in WasmInvalidCandidates}
        \cup {<<"Err", <<"Internal", "io">>>>}
        \cup {<<"Ok", r>> : r \in [head_data : sizes,
                                   new_validation_code : {None} \cup {Some(n) : n \in sizes}]}

\* TransientValidationData (code_upgrade_allowed : Option<BlockNumber>)
Transients ==
    [max_head_data_size : {MaxSize}, max_code_size : {MaxSize}, code_upgrade_allowed : {None, Some(0)}]

\* What the environment answers while one ValidateFromChainState is handled:
\* the runtime's answers to FullValidationData under each assumption and to
\* ValidationCode, whether ctx.spawn_blocking succeeds, and the backend's
\* result. An answer is <<"Canceled", None>> (the request could not be sent
\* or its channel was dropped), <<"Err", None>> (RuntimeApiError) or
\* <<"Ok", Option<value>>>. The runtime answers only what it is asked, so an
\* answer to a request that cannot be made for `descriptor` is held at a
\* default instead of being enumerated.
ChainStateAnswers(descriptor) ==
    LET datas == {<<"Ok", Some(d)>> : d \in [persisted : {"d1", "d2"}, transient : Transients]}
        matching == {r \in datas : hash(r[2][1].persisted) = descriptor.persisted_validation_data_hash}
        differing == datas \ matching
        failing == {<<"Canceled", None>>, <<"Err", None>>, <<"Ok", None>>}
        unasked == <<"Ok", None>>
        idle == [code |-> unasked, spawn |-> FALSE, backend |-> <<"Err", <<"Internal", "io">>>>]
        after_match ==
            {[idle EXCEPT !.code = c] : c \in failing}
            \cup {[idle EXCEPT !.code = <<"Ok", Some("code")>>]}
            \cup {[code |-> <<"Ok", Some("code")>>, spawn |-> TRUE, backend |-> b] : b \in BackendResults}
        answers(i, t, m) ==
            [included |-> i, timed_out |-> t, code |-> m.code, spawn |-> m.spawn, backend |-> m.backend]
    IN  {answers(i, unasked, idle) : i \in failing}
        \cup {answers(i, unasked, m) : i \in matching, m \in after_match}
        \cup {answers(i, t, idle) : i \in differing, t \in failing \cup differing}
        \cup {answers(i, t, m) : i \in differing, t \in matching, m \in after_match}

\* fn perform_basic_checks, called with max_block_data_size = None (so the
\* size check never applies). check_collator_signature verifies the
\* signature under the declared collator over the descriptor's payload.
perform_basic_checks(candidate, pov) ==
    LET payload == <<candidate.persisted_validation_data_hash, candidate.pov_hash>>
    IN  IF hash(pov) # candidate.pov_hash THEN <<"Err", <<"HashMismatch">>>>
        ELSE IF candidate.signature # <<"sig", candidate.collator, payload>> THEN <<"Err", <<"BadSignature">>>>
        ELSE <<"Ok">>

\* fn check_wasm_result_against_constraints
check_wasm_result_against_constraints(transient_params, result) ==
    IF result.head_data > transient_params.max_head_data_size
    THEN <<"Err", <<"HeadDataTooLarge", result.head_data>>>>
    ELSE IF IsSome(result.new_validation_code) /\ transient_params.code_upgrade_allowed = None
    THEN <<"Err", <<"CodeUpgradeNotAllowed">>>>
    ELSE IF IsSome(result.new_validation_code) /\ Unwrap(result.new_validation_code) > transient_params.max_code_size
    THEN <<"Err", <<"NewCodeTooLarge", Unwrap(result.new_validation_code)>>>>
    ELSE <<"Ok">>

\* C19 mutant: every error of the backend reported as a failure to validate.
validation_error_result_all_failed(e) ==
    <<"Err", <<"ValidationFailed", IF e[1] = "Internal" THEN e[2] ELSE e[2][1]>>>>

\* The Err arms of `match B::validate(..)` in validate_candidate_exhaustive.
validation_error_result(e) ==
    IF e[1] = "Internal"
    THEN <<"Err", <<"ValidationFailed", e[2]>>>>
    ELSE LET k == e[2]
             kind == CASE k[1] = "Timeout" -> <<"Timeout">>
                       [] k[1] = "ParamsTooLarge" -> <<"ParamsTooLarge", k[2]>>
                       [] k[1] = "CodeTooLarge" -> <<"CodeTooLarge", k[2]>>
                       [] k[1] = "BadReturn" -> <<"BadReturn">>
                       [] k[1] = "WasmExecutor" -> <<"ExecutionError", k[2]>>
                       [] k[1] = "ExternalWasmExecutor" -> <<"ExecutionError", k[2]>>
         IN  <<"Ok", <<"Invalid", kind>>>>

\* The Ok arm of the same match.
validation_ok_result(res, persisted_validation_data, transient_validation_data) ==
    LET post_check_result ==
            IF IsSome(transient_validation_data)
            THEN check_wasm_result_against_constraints(Unwrap(transient_validation_data), res)
            ELSE <<"Ok">>
    IN  IF post_check_result[1] = "Ok"
        THEN <<"Ok", <<"Valid", [head_data |-> res.head_data,
                                 validation_data |-> persisted_validation_data,
                                 fees |-> 0,
                                 new_validation_code |-> res.new_validation_code]>>>>
        ELSE <<"Ok", <<"Invalid", post_check_result[2]>>>>

\* C17 mutant: the backend is run before the basic checks are looked at.
validate_candidate_exhaustive_unchecked(backend_result, persisted_validation_data, transient_validation_data, validation_code, descriptor, pov) ==
    [backend |-> <<backend_result>>,
     result |->
        IF perform_basic_checks(descriptor, pov)[1] = "Err"
        THEN <<"Ok", <<"Invalid", perform_basic_checks(descriptor, pov)[2]>>>>
        ELSE IF backend_result[1] = "Err"
        THEN validation_error_result(backend_result[2])
        ELSE validation_ok_result(backend_result[2], persisted_validation_data, transient_validation_data)]

\* fn validate_candidate_exhaustive; `backend_result` is what B::validate
\* returns if it is called, and `backend` lists the calls made.
validate_candidate_exhaustive(backend_result, persisted_validation_data, transient_validation_data, validation_code, descriptor, pov) ==
    IF perform_basic_checks(descriptor, pov)[1] = "Err"
    THEN [backend |-> <<>>,
          result |-> <<"Ok", <<"Invalid", perform_basic_checks(descriptor, pov)[2]>>>>]
    ELSE [backend |-> <<backend_result>>,
          result |->
            IF backend_result[1] = "Err"
            THEN validation_error_result(backend_result[2])
            ELSE validation_ok_result(backend_result[2], persisted_validation_data, transient_validation_data)]

\* async fn spawn_validate_exhaustive: `spawn` is whether ctx.spawn_blocking
\* succeeds; the spawned task runs validate_candidate_exhaustive and sends
\* its result back.
spawn_validate_exhaustive(spawn, backend_result, persisted_validation_data, transient_validation_data, validation_code, descriptor, pov) ==
    IF ~spawn
    THEN [outcome |-> <<"SubsystemError">>, spawned |-> <<>>, backend |-> <<>>]
    ELSE LET res == validate_candidate_exhaustive(backend_result, persisted_validation_data,
                        transient_validation_data, validation_code, descriptor, pov)
         IN  [outcome |-> res.result,
              spawned |-> <<[persisted |-> persisted_validation_data,
                             transient |-> transient_validation_data,
                             validation_code |-> validation_code]>>,
              backend |-> res.backend]

\* async fn check_assumption_validation_data
check_assumption_validation_data(answers, descriptor, assumption) ==
    LET d == IF assumption = "Included" THEN answers.included ELSE answers.timed_out
        asked == <<[request |-> <<"FullValidationData", assumption>>, answer |-> d]>>
        both == Append(asked, [request |-> <<"ValidationCode", "Included">>, answer |-> answers.code])
    IN  IF d[1] = "Canceled" THEN [outcome |-> <<"SubsystemError">>, requests |-> asked]
        ELSE IF d[1] = "Err" \/ d[2] = None THEN [outcome |-> <<"BadRequest">>, requests |-> asked]
        ELSE IF descriptor.persisted_validation_data_hash = hash(Unwrap(d[2]).persisted)
        THEN IF answers.code[1] = "Canceled" THEN [outcome |-> <<"SubsystemError">>, requests |-> both]
             ELSE IF answers.code[1] = "Err" \/ answers.code[2] = None
             THEN [outcome |-> <<"BadRequest">>, requests |-> both]
             ELSE [outcome |-> <<"Matches", Unwrap(d[2]), Unwrap(answers.code[2])>>, requests |-> both]
        ELSE [outcome |-> <<"DoesNotMatch">>, requests |-> asked]

\* C18 mutant: only the Included assumption is tried.
spawn_validate_from_chain_state_included_only(answers, descriptor, pov) ==
    LET included == check_assumption_validation_data(answers, descriptor, "Included")
        none == [requests |-> included.requests, spawned |-> <<>>, backend |-> <<>>]
    IN  IF included.outcome[1] = "Matches"
        THEN LET done == spawn_validate_exhaustive(answers.spawn, answers.backend,
                             included.outcome[2].persisted, Some(included.outcome[2].transient),
                             included.outcome[3], descriptor, pov)
             IN  [outcome |-> done.outcome, requests |-> included.requests,
                  spawned |-> done.spawned, backend |-> done.backend]
        ELSE IF included.outcome[1] = "DoesNotMatch"
        THEN ([outcome |-> <<"Ok", <<"Invalid", <<"BadParent">>>>>>] @@ none)
        ELSE IF included.outcome[1] = "BadRequest"
        THEN ([outcome |-> <<"Err", <<"ValidationFailed", "Bad request">>>>] @@ none)
        ELSE ([outcome |-> <<"SubsystemError">>] @@ none)

\* async fn spawn_validate_from_chain_state
spawn_validate_from_chain_state(answers, descriptor, pov) ==
    LET included == check_assumption_validation_data(answers, descriptor, "Included")
        timed_out == check_assumption_validation_data(answers, descriptor, "TimedOut")
        after(check, requests) ==
            LET none == [requests |-> requests, spawned |-> <<>>, backend |-> <<>>]
            IN  IF check.outcome[1] = "Matches"
                THEN LET done == spawn_validate_exhaustive(answers.spawn, answers.backend,
                                     check.outcome[2].persisted, Some(check.outcome[2].transient),
                                     check.outcome[3], descriptor, pov)
                     IN  [outcome |-> done.outcome, requests |-> requests,
                          spawned |-> done.spawned, backend |-> done.backend]
                ELSE IF check.outcome[1] = "BadRequest"
                THEN ([outcome |-> <<"Err", <<"ValidationFailed", "Bad request">>>>] @@ none)
                ELSE IF check.outcome[1] = "SubsystemError"
                THEN ([outcome |-> <<"SubsystemError">>] @@ none)
                ELSE ([outcome |-> <<"Ok", <<"Invalid", <<"BadParent">>>>>>] @@ none)
    IN  IF included.outcome[1] # "DoesNotMatch"
        THEN after(included, included.requests)
        ELSE after(timed_out, included.requests \o timed_out.requests)

ValidationInit ==
    /\ CoordInit
    /\ ChainIdle
    /\ StoreIdle
    /\ CollatorIdle
    /\ cv_stop = "running"
    /\ cv_message = None
    /\ cv_requests = <<>>
    /\ cv_spawned = <<>>
    /\ cv_backend = <<>>
    /\ cv_reply = None
    /\ cv_awaiting = None
    /\ cv_conclude_sent = FALSE
    /\ SelectionIdle
    /\ WorkspaceIdle
    /\ RequesterIdle

\* `match res` in run(): Ok(x) is sent on the response_sender (a dropped
\* requester is ignored or logged), Err(e) is returned from run().
handled(message, res) ==
    /\ cv_message' = Some(message)
    /\ cv_requests' = res.requests
    /\ cv_spawned' = res.spawned
    /\ cv_backend' = res.backend
    /\ cv_reply' = IF res.outcome[1] = "SubsystemError" THEN None ELSE Some(res.outcome)
    /\ cv_stop' = IF res.outcome[1] = "SubsystemError" THEN "failed" ELSE "running"
    /\ cv_awaiting' = None
    /\ UNCHANGED cv_conclude_sent
    /\ UNCHANGED <<coordVars, chainVars, storeVars, collatorVars, selectionVars, workspaceVars, requesterVars>>

\* run() takes a ValidateFromChainState message from ctx.recv(); its handler
\* sends the first runtime API request and awaits the reply inside the match
\* arm, where ctx.recv() is not polled. A signal that waits is received
\* before any message.
CvReceive(descriptor, pov) ==
    /\ cv_stop = "running"
    /\ cv_awaiting = None
    /\ ~cv_conclude_sent
    /\ cv_awaiting' = Some(<<descriptor, pov>>)
    /\ UNCHANGED <<cv_stop, cv_message, cv_requests, cv_spawned, cv_backend, cv_reply, cv_conclude_sent>>
    /\ UNCHANGED <<coordVars, chainVars, storeVars, collatorVars, selectionVars, workspaceVars, requesterVars>>

\* CandidateValidationMessage::ValidateFromChainState: the replies the
\* handler awaits arrive, and it runs to its end.
ValidateFromChainState(descriptor, pov, answers) ==
    /\ cv_stop = "running"
    /\ cv_awaiting = Some(<<descriptor, pov>>)
    /\ handled([kind |-> "ValidateFromChainState", descriptor |-> descriptor, pov |-> pov],
               spawn_validate_from_chain_state(answers, descriptor, pov))

\* CandidateValidationMessage::ValidateFromExhaustive
ValidateFromExhaustive(persisted_validation_data, transient_validation_data, validation_code, descriptor, pov, spawn, backend_result) ==
    /\ cv_stop = "running"
    /\ cv_awaiting = None
    /\ ~cv_conclude_sent
    /\ handled([kind |-> "ValidateFromExhaustive", descriptor |-> descriptor, pov |-> pov],
               [requests |-> <<>>] @@
               spawn_validate_exhaustive(spawn, backend_result, persisted_validation_data,
                   transient_validation_data, validation_code, descriptor, pov))

\* OverseerSignal::ActiveLeaves and OverseerSignal::BlockFinalized
CvSignal ==
    /\ cv_stop = "running"
    /\ cv_awaiting = None
    /\ ~cv_conclude_sent
    /\ UNCHANGED vars

\* The overseer broadcasts Conclude: the signal waits for the next ctx.recv().
SendConclude ==
    /\ cv_stop = "running"
    /\ ~cv_conclude_sent
    /\ cv_conclude_sent' = TRUE
    /\ UNCHANGED <<cv_stop, cv_message, cv_requests, cv_spawned, cv_backend, cv_reply, cv_awaiting>>
    /\ UNCHANGED <<coordVars, chainVars, storeVars, collatorVars, selectionVars, workspaceVars, requesterVars>>

\* OverseerSignal::Conclude, received by ctx.recv() at the head of the loop.
CvConclude ==
    /\ cv_stop = "running"
    /\ cv_awaiting = None
    /\ cv_conclude_sent
    /\ cv_stop' = "concluded"
    /\ cv_conclude_sent' = FALSE
    /\ UNCHANGED <<cv_message, cv_requests, cv_spawned, cv_backend, cv_reply, cv_awaiting>>
    /\ UNCHANGED <<coordVars, chainVars, storeVars, collatorVars, selectionVars, workspaceVars, requesterVars>>

\* ctx.recv() returning an error
CvRecvError ==
    /\ cv_stop = "running"
    /\ cv_awaiting = None
    /\ cv_stop' = "failed"
    /\ UNCHANGED <<cv_message, cv_requests, cv_spawned, cv_backend, cv_reply, cv_awaiting, cv_conclude_sent>>
    /\ UNCHANGED <<coordVars, chainVars, storeVars, collatorVars, selectionVars, workspaceVars, requesterVars>>

ValidationNext ==
    \/ \E d \in Descriptors : CvReceive(d, "pov1")
    \/ IsSome(cv_awaiting) /\ \E a \in ChainStateAnswers(Unwrap(cv_awaiting)[1]) :
            ValidateFromChainState(Unwrap(cv_awaiting)[1], Unwrap(cv_awaiting)[2], a)
    \/ (cv_stop = "running" /\ cv_awaiting = None /\ ~cv_conclude_sent) /\ \E d \in Descriptors, t \in {None} \cup {Some(x) : x \in Transients},
                                 b \in BackendResults, spawn \in BOOLEAN :
            ValidateFromExhaustive("d1", t, "code", d, "pov1", spawn, b)
    \/ CvSignal
    \/ SendConclude
    \/ CvConclude
    \/ CvRecvError

SpecValidation == ValidationInit /\ [][ValidationNext]_vars

\* The executor polls run() whenever it can make progress: a Conclude that
\* can be received again and again is received. Whether the runtime API
\* ever answers is not up to the subsystem.
SpecValidationFair == SpecValidation /\ SF_vars(CvConclude)

(***************************************************************************)
(*                            CHAIN SELECTION                              *)
(* The forest of unfinalized blocks with its viability information and     *)
(* its leaf set, kept in the order in which it is read, and the           *)
(* blocks_by_number index. The stagnant_at index is left out; a block's    *)
(* children are the stored blocks whose parent it is.                      *)
(***************************************************************************)

\* The highest block number of the headers that exist.
MaxNumber == 3

\* The finalized block the subsystem starts from, and the headers that can be
\* imported: a chain a1 <- a2 <- .. on it, a fork b2 <- b3 <- .. on a1 and
\* a second child c1 of the finalized block.
\* A block is named by its chain and its number.
Genesis == <<"f", 0>>
Blocks ==
    {<<"a", n>> : n \in 1 .. MaxNumber} \cup {<<"b", n>> : n \in 2 .. MaxNumber} \cup {<<"c", 1>>}

\* Header.parent_hash
parent_of(b) ==
    IF b[2] = 1 THEN Genesis
    ELSE IF b = <<"b", 2>> THEN <<"a", 1>>
    ELSE <<b[1], b[2] - 1>>

\* The proper ancestors of b, followed through the parent pointers.
RECURSIVE ancestry(_)
ancestry(b) == IF b = Genesis THEN {} ELSE {parent_of(b)} \cup ancestry(parent_of(b))

\* The weights a header can have, and the weights of all headers: a block
\* weighs at least what its parent weighs.
Weights == {1, 2}
ChainWeights ==
    {w \in [Blocks -> Weights] : \A b \in Blocks : parent_of(b) \in Blocks => w[parent_of(b)] <= w[b]}

\* The order of the block hashes: those of chain a are below those of chain
\* b, and these below c1.
hash_below(x, y) == <<x[1], y[1]>> \in {<<"a", "b">>, <<"a", "c">>, <<"b", "c">>}

\* LeafEntry's order: by weight, then by block number, then by block hash.
leaf_below(x, y) ==
    \/ cs_weights[x] < cs_weights[y]
    \/ cs_weights[x] = cs_weights[y] /\ x[2] < y[2]
    \/ cs_weights[x] = cs_weights[y] /\ x[2] = y[2] /\ hash_below(x, y)

\* C21 mutant: the new leaf is put at the end of the leaves.
leaf_insert_last(leaves, b) == Append(leaves, b)

\* LeafEntrySet::insert: the new leaf goes behind the leading leaves above it.
leaf_insert(leaves, b) ==
    LET above == {i \in 0 .. Len(leaves) : \A j \in 1 .. i : leaf_below(b, leaves[j])}
        k == CHOOSE i \in above : \A j \in above : j <= i
    IN  SubSeq(leaves, 1, k) \o <<b>> \o SubSeq(leaves, k + 1, Len(leaves))

\* LeafEntrySet::remove, for every block of `gone`.
leaf_remove(leaves, gone) == SelectSeq(leaves, LAMBDA l : l \notin gone)

\* The leaves as a set.
leaf_set(leaves) == {leaves[i] : i \in 1 .. Len(leaves)}

\* Inserting the blocks of `fresh` one after the other.
RECURSIVE leaf_insert_all(_, _)
leaf_insert_all(leaves, fresh) ==
    IF fresh = {} THEN leaves
    ELSE LET b == CHOOSE x \in fresh : TRUE
         IN  leaf_insert_all(leaf_insert(leaves, b), fresh \ {b})

NoEntry == [stored |-> FALSE, reverted |-> FALSE, unviable_ancestor |-> FALSE]

\* A stored block is viable when it was not reverted and has no unviable ancestor.
is_viable(entry) == ~entry.reverted /\ ~entry.unviable_ancestor

\* Storing the header of b, whose parent is stored or finalized.
import_block(st, b) ==
    LET p == parent_of(b)
        inherits == p \in Blocks /\ st.entries[p].stored /\ ~is_viable(st.entries[p])
    IN  [st EXCEPT !.entries[b] = [stored |-> TRUE, reverted |-> FALSE, unviable_ancestor |-> inherits],
                   !.leaves = IF inherits THEN st.leaves ELSE leaf_insert(leaf_remove(st.leaves, {p}), b)]

\* C20 mutant: a reversion that marks the reverted block and not its descendants.
apply_reversion_target_only(st, b, r) ==
    IF r <= st.finalized[2] \/ r >= b[2]
    THEN st
    ELSE LET target == CHOOSE x \in ancestry(b) : x[2] = r
         IN  [st EXCEPT !.entries[target].reverted = TRUE,
                        !.leaves = leaf_remove(st.leaves, {target})]

\* C23 mutant: a reversion that ignores the numbers after b's own and lets b
\* revert itself.
apply_reversion_self(st, b, r) ==
    IF r <= st.finalized[2] \/ r > b[2]
    THEN st
    ELSE LET target == CHOOSE x \in ancestry(b) \cup {b} : x[2] = r
             subtree == {d \in Blocks : st.entries[d].stored /\ target \in ancestry(d)}
             entries == [x \in Blocks |->
                            IF x = target THEN [st.entries[x] EXCEPT !.reverted = TRUE]
                            ELSE IF x \in subtree THEN [st.entries[x] EXCEPT !.unviable_ancestor = TRUE]
                            ELSE st.entries[x]]
         IN  [st EXCEPT !.entries = entries,
                        !.leaves = leaf_remove(st.leaves, {target} \cup subtree)]

\* The reversion entry r in the header of the stored block b: ignored at or
\* below the finalized height and at or after b's own number; otherwise the
\* ancestor numbered r becomes unviable with all its descendants, and its
\* parent becomes a leaf if it is viable and has no viable child left.
apply_reversion(st, b, r) ==
    IF r <= st.finalized[2] \/ r >= b[2]
    THEN st
    ELSE LET target == CHOOSE x \in ancestry(b) : x[2] = r
             subtree == {d \in Blocks : st.entries[d].stored /\ target \in ancestry(d)}
             entries == [x \in Blocks |->
                            IF x = target THEN [st.entries[x] EXCEPT !.reverted = TRUE]
                            ELSE IF x \in subtree THEN [st.entries[x] EXCEPT !.unviable_ancestor = TRUE]
                            ELSE st.entries[x]]
             p == parent_of(target)
             viable_children == {c \in Blocks : parent_of(c) = p /\ entries[c].stored /\ is_viable(entries[c])}
             bare == /\ is_viable(st.entries[target])
                     /\ p \in Blocks
                     /\ st.entries[p].stored
                     /\ viable_children = {}
         IN  [st EXCEPT !.entries = entries,
                        !.leaves = LET rest == leaf_remove(st.leaves, {target} \cup subtree)
                                   IN  IF bare THEN leaf_insert(rest, p) ELSE rest]

\* Importing the headers `path` (oldest first), each with its own reversion
\* entry in `reversions` (None, or Some(block number)).
RECURSIVE import(_, _, _)
import(st, path, reversions) ==
    IF path = <<>>
    THEN st
    ELSE LET stored == import_block(st, Head(path))
             reverted == IF Head(reversions) = None
                         THEN stored
                         ELSE apply_reversion(stored, Head(path), Unwrap(Head(reversions)))
         IN  import(reverted, Tail(path), Tail(reversions))

\* C36 mutant: the walk back stops at the activated block.
head_only(st, h) == <<h>>

\* The walk back from the activated block h over the parent pointers until a
\* stored block or the finalized block is met: the blocks to import, oldest first.
unknown_path(st, h) ==
    LET unknown == {x \in (ancestry(h) \cup {h}) \cap Blocks : ~st.entries[x].stored /\ x[2] > st.finalized[2]}
    IN  [i \in 1 .. Cardinality(unknown) |-> CHOOSE x \in unknown : x[2] = h[2] - Cardinality(unknown) + i]

\* C22 mutant: a finalization that deletes the blocks up to the finalized
\* number and leaves the subtrees of the siblings above it in place.
finalize_block_by_number(st, h, recompute) ==
    LET kept == {d \in Blocks : st.entries[d].stored /\ d[2] > h[2]}
        pruned == [x \in Blocks |-> IF x \in kept THEN st.entries[x] ELSE NoEntry]
    IN  [entries |-> pruned, leaves |-> leaf_remove(st.leaves, Blocks \ kept), finalized |-> h]

\* BlockFinalized(h): every block that is not a descendant of h is deleted.
\* With `recompute`, viability is then computed anew from the finalized
\* boundary (a reverted block that was finalized no longer makes its
\* descendants unviable); without, the kept entries and leaves stay as stored.
finalize_block(st, h, recompute) ==
    LET kept == {d \in Blocks : st.entries[d].stored /\ h \in ancestry(d)}
        pruned == [x \in Blocks |-> IF x \in kept THEN st.entries[x] ELSE NoEntry]
        entries == [x \in Blocks |->
                        IF x \in kept
                        THEN [pruned[x] EXCEPT !.unviable_ancestor = \E y \in ancestry(x) \cap kept : pruned[y].reverted]
                        ELSE NoEntry]
        tips == {x \in kept : is_viable(entries[x])
                              /\ ~\E c \in kept : parent_of(c) = x /\ is_viable(entries[c])}
    IN  IF recompute
        THEN [entries |-> entries, leaves |-> leaf_insert_all(<<>>, tips), finalized |-> h]
        ELSE [entries |-> pruned, leaves |-> leaf_remove(st.leaves, Blocks \ kept), finalized |-> h]

\* BackendWriteOp::WriteBlocksByNumber for each imported header: its hash
\* joins the hashes stored under its number. The hashes of a number are
\* kept as a set: they are only searched.
RECURSIVE write_blocks_by_number(_, _)
write_blocks_by_number(by_number, path) ==
    IF path = <<>>
    THEN by_number
    ELSE LET b == Head(path)
         IN  write_blocks_by_number([by_number EXCEPT ![b[2]] = @ \cup {b}], Tail(path))

\* BackendWriteOp::DeleteBlocksByNumber and WriteBlocksByNumber on
\* finalization: the hashes of the deleted blocks leave the index.
prune_blocks_by_number(by_number, entries) ==
    [n \in DOMAIN by_number |-> {x \in by_number[n] : entries[x].stored}]

\* The backend as one value.
selection == [entries |-> cs_entries, leaves |-> cs_leaves, finalized |-> cs_finalized]

SelectionInit ==
    /\ CoordInit
    /\ ChainIdle
    /\ StoreIdle
    /\ CollatorIdle
    /\ ValidationIdle
    /\ cs_entries = [b \in Blocks |-> NoEntry]
    /\ cs_leaves = <<>>
    /\ cs_finalized = Genesis
    /\ cs_weights \in ChainWeights
    /\ ft_reply = None
    /\ cs_blocks_by_number = [n \in 1 .. MaxNumber |-> {}]
    /\ cs_walked = 0
    /\ WorkspaceIdle
    /\ RequesterIdle

\* The reversion entries of the headers of a walk of `len` blocks: None, or
\* Some(block number). At most one header of a walk carries an entry; more
\* entries arrive by activating the blocks one at a time.
Reversions(len) ==
    LET none == [i \in 1 .. len |-> None]
    IN  {none} \cup {[none EXCEPT ![i] = Some(r)] : i \in 1 .. len, r \in 0 .. MaxNumber}

\* OverseerSignal::ActiveLeaves activating h, a block on top of the finalized one.
CsActiveLeaves(h, reversions) ==
    /\ ~cs_entries[h].stored
    /\ cs_finalized \in ancestry(h)
    /\ LET path == unknown_path(selection, h)
           done == import(selection, path, reversions)
       IN  /\ cs_entries' = done.entries
           /\ cs_leaves' = done.leaves
           /\ cs_finalized' = done.finalized
           /\ cs_blocks_by_number' = write_blocks_by_number(cs_blocks_by_number, path)
    /\ UNCHANGED <<cs_weights, ft_reply, cs_walked>>
    /\ UNCHANGED <<coordVars, chainVars, storeVars, collatorVars, validationVars, workspaceVars, requesterVars>>

\* OverseerSignal::BlockFinalized(h, number of h)
CsBlockFinalized(h, recompute) ==
    /\ cs_entries[h].stored
    /\ recompute => ~is_viable(cs_entries[h])
    /\ LET done == finalize_block(selection, h, recompute)
       IN  /\ cs_entries' = done.entries
           /\ cs_leaves' = done.leaves
           /\ cs_finalized' = done.finalized
           /\ cs_blocks_by_number' = prune_blocks_by_number(cs_blocks_by_number, done.entries)
    /\ UNCHANGED cs_walked
    /\ UNCHANGED <<cs_weights, ft_reply>>
    /\ UNCHANGED <<coordVars, chainVars, storeVars, collatorVars, validationVars, workspaceVars, requesterVars>>

\* The blocks a finality target is asked for: the finalized block and the
\* blocks of the forest.
StoredOrFinalized == {cs_finalized} \cup {b \in Blocks : cs_entries[b].stored}

\* SelectRelayChain::finality_target: the body is unimplemented!(), which
\* panics whatever the arguments are.
finality_target(target_hash, maybe_max_number) == <<"Panic", "not implemented">>

\* A call of finality_target by the finality gadget; the caller does not
\* outlive a panic.
FinalityTarget(target_hash, maybe_max_number) ==
    /\ ft_reply = None
    /\ ft_reply' = Some(finality_target(target_hash, maybe_max_number))
    /\ UNCHANGED <<cs_entries, cs_leaves, cs_finalized, cs_weights, cs_blocks_by_number, cs_walked>>
    /\ UNCHANGED <<coordVars, chainVars, storeVars, collatorVars, validationVars, workspaceVars, requesterVars>>

SelectionNext ==
    \/ \E h \in Blocks : \E reversions \in Reversions(Len(unknown_path(selection, h))) :
            CsActiveLeaves(h, reversions)
    \/ \E h \in Blocks, recompute \in BOOLEAN : CsBlockFinalized(h, recompute)
    \/ \E target_hash \in StoredOrFinalized :
            \E maybe_max_number \in {None, Some(cs_finalized[2] + 1)} :
                FinalityTarget(target_hash, maybe_max_number)

SpecSelection == SelectionInit /\ [][SelectionNext]_vars

\* The activations once more, with the length of each walk back noted, on
\* headers that all weigh the same.
WalkInit ==
    /\ SelectionInit
    /\ \A b \in Blocks : cs_weights[b] = 1

CsActiveLeavesWalked(h, reversions) ==
    /\ ~cs_entries[h].stored
    /\ cs_finalized \in ancestry(h)
    /\ LET path == unknown_path(selection, h)
           done == import(selection, path, reversions)
       IN  /\ cs_entries' = done.entries
           /\ cs_leaves' = done.leaves
           /\ cs_finalized' = done.finalized
           /\ cs_blocks_by_number' = write_blocks_by_number(cs_blocks_by_number, path)
           /\ cs_walked' = Len(path)
    /\ UNCHANGED <<cs_weights, ft_reply>>
    /\ UNCHANGED <<coordVars, chainVars, storeVars, collatorVars, validationVars, workspaceVars, requesterVars>>

WalkNext ==
    \/ \E h \in Blocks : \E reversions \in Reversions(Len(unknown_path(selection, h))) :
            CsActiveLeavesWalked(h, reversions)
    \/ \E h \in Blocks, recompute \in BOOLEAN : CsBlockFinalized(h, recompute)

SpecWalk == WalkInit /\ [][WalkNext]_vars

(***************************************************************************)
(*                          VALIDATION WORKSPACE                           *)
(* The shared memory a validation host creates and the worker processes    *)
(* that open it by its id. A call of open is three steps on what the       *)
(* processes share: opening the shared memory by its id, unlinking the id  *)
(* (on unix), and the compare-exchange on the attached flag.               *)
(***************************************************************************)

\* The number of processes that call open with the id of the workspace.
MaxWorkers == 3
Workers == 1 .. MaxWorkers

\* AtomicBool::compare_exchange_weak(false, true) on the flag `current`: the
\* outcomes it can have, as (is_ok, the flag afterwards). The exchange takes
\* place only if the flag is false, and the weak form may fail also then.
compare_exchange_weak(current) ==
    {<<FALSE, current>>} \cup (IF current = FALSE THEN {<<TRUE, TRUE>>} ELSE {})

\* C25 mutant: the flag is set without looking at what it holds.
declare_exclusive_attached_store(current) == {<<TRUE, TRUE>>}

\* Inner::declare_exclusive_attached
declare_exclusive_attached(current) == compare_exchange_weak(current)

\* create(): the shared memory is new (zeroed) and linked under its id.
WorkspaceInit ==
    /\ CoordInit
    /\ ChainIdle
    /\ StoreIdle
    /\ CollatorIdle
    /\ ValidationIdle
    /\ SelectionIdle
    /\ RequesterIdle
    /\ ws_unix \in BOOLEAN
    /\ ws_linked = TRUE
    /\ ws_attached = FALSE
    /\ worker_pc = [w \in Workers |-> "start"]
    /\ ws_mem = <<>>
    /\ ws_events = <<>>
    /\ host_pc = "idle"
    /\ host_sent = <<>>
    /\ host_result = <<>>
    /\ worker_st = "idle"
    /\ worker_work = <<>>
    /\ worker_reported = <<>>

\* open(id), ShmemConf::open: fails once the id is unlinked.
OpenShmem(w) ==
    /\ worker_pc[w] = "start"
    /\ worker_pc' = [worker_pc EXCEPT ![w] = IF ws_linked THEN "opened" ELSE "Err(opening)"]
    /\ UNCHANGED <<ws_unix, ws_linked, ws_attached>>
    /\ UNCHANGED <<coordVars, chainVars, storeVars, collatorVars, validationVars, selectionVars, requesterVars>>
    /\ UNCHANGED protocolVars

\* open(id), unlink_shmem and Inner::layout in Mode::Attach.
UnlinkShmem(w) ==
    /\ worker_pc[w] = "opened"
    /\ worker_pc' = [worker_pc EXCEPT ![w] = "laid out"]
    /\ ws_linked' = (ws_linked /\ ~ws_unix)
    /\ UNCHANGED <<ws_unix, ws_attached>>
    /\ UNCHANGED <<coordVars, chainVars, storeVars, collatorVars, validationVars, selectionVars, requesterVars>>
    /\ UNCHANGED protocolVars

\* open(id), from declare_exclusive_attached to its return.
Attach(w) ==
    /\ worker_pc[w] = "laid out"
    /\ \E outcome \in declare_exclusive_attached(ws_attached) :
            /\ ws_attached' = outcome[2]
            /\ worker_pc' = [worker_pc EXCEPT ![w] = IF outcome[1] THEN "Ok(WorkerHandle)"
                                                     ELSE "Err(already attached)"]
    /\ UNCHANGED <<ws_unix, ws_linked>>
    /\ UNCHANGED <<coordVars, chainVars, storeVars, collatorVars, validationVars, selectionVars, requesterVars>>
    /\ UNCHANGED protocolVars

WorkspaceNext ==
    \E w \in Workers : OpenShmem(w) \/ UnlinkShmem(w) \/ Attach(w)

SpecWorkspace == WorkspaceInit /\ [][WorkspaceNext]_vars

\* ---- the host and the attached worker ----

MAX_PARAMS_MEM == 1024 * 1024
MAX_CODE_MEM == 16 * 1024 * 1024

\* Longest validation code of a request, in cells.
MaxBytes == 1
\* The number of requests the host makes on the workspace.
MaxRequests == 2

\* The encoded params of the host's n-th request: one cell holding n, so that
\* every request is told from the others.
ParamsOf(n) == <<n>>
Codes == {c \in SeqsUpTo({5}, MaxBytes) : TRUE}

\* The cells of the data region: the two of a header, the params, the code.
MemSize == 2 + 1 + MaxBytes

\* Writing `bytes` at the start of the region leaves the cells after them.
write_region(mem, bytes) == bytes \o SubSeq(mem, Len(bytes) + 1, Len(mem))

\* ValidationHeader { code_size, params_size }.encode() followed by params and code
encode_request(params, code) == <<Len(code), Len(params)>> \o params \o code

\* ValidationResultHeader::encode: the variant index, then the payload.
encode_result(header) ==
    IF header[1] = "Ok" THEN <<0, header[2]>> ELSE <<1, header[2]>>

\* ValidationResultHeader::decode of the start of the region.
decode_result(mem) ==
    IF mem[1] = 0 THEN <<"Ok", <<"Ok", mem[2]>>>>
    ELSE IF mem[1] = 1 THEN <<"Ok", <<"Error", mem[2]>>>>
    ELSE <<"Err", "HeaderDecodeErr">>

\* WorkerHandle::wait_for_work once candidate_ready_ev was signaled: decode the
\* header, split the params and the code off the rest (split_at panics when
\* the size is beyond the slice).
work_item(mem) ==
    LET code_size   == mem[1]
        params_size == mem[2]
        cur         == SubSeq(mem, 3, Len(mem))
    IN  IF params_size > Len(cur) THEN <<"Panic", "mid > len">>
        ELSE IF code_size > Len(cur) - params_size THEN <<"Panic", "mid > len">>
        ELSE <<"Ok", SubSeq(cur, 1, params_size),
                     SubSeq(cur, params_size + 1, params_size + code_size)>>

\* HostHandle::request_validation up to the signal: the error it returns, or
\* the region as it leaves it.
request_validation(mem, code, params) ==
    IF Len(code) > MAX_CODE_MEM THEN <<"Err", "CodeTooLarge">>
    ELSE IF Len(params) > MAX_PARAMS_MEM THEN <<"Err", "ParamsTooLarge">>
    ELSE IF Len(encode_request(params, code)) > Len(mem) THEN <<"Err", "WriteData">>
    ELSE <<"Ok", write_region(mem, encode_request(params, code))>>

\* What the worker answers to a work item: Ok with the number its params
\* hold, Error for an item without params.
answer(params, code) ==
    IF params # <<>> THEN <<"Ok", params[1]>> ELSE <<"Error", 0>>

\* The three events, created by create() with auto reset, none signaled.
NoEvent == [candidate_ready |-> FALSE, result_ready |-> FALSE, worker_ready |-> FALSE]

\* create() by the host and a successful open(id) by the worker.
ProtocolInit ==
    /\ CoordInit
    /\ ChainIdle
    /\ StoreIdle
    /\ CollatorIdle
    /\ ValidationIdle
    /\ SelectionIdle
    /\ RequesterIdle
    /\ ws_unix = TRUE
    /\ ws_linked = FALSE
    /\ ws_attached = TRUE
    /\ worker_pc = <<"Ok(WorkerHandle)">>
    /\ ws_mem = [i \in 1 .. MemSize |-> 0]
    /\ ws_events = NoEvent
    /\ host_pc = "start"
    /\ host_sent = <<>>
    /\ host_result = None
    /\ worker_st = "attached"
    /\ worker_work = None
    /\ worker_reported = <<>>

\* WorkerHandle::signal_ready
SignalReady ==
    /\ worker_st = "attached"
    /\ ws_events' = [ws_events EXCEPT !.worker_ready = TRUE]
    /\ worker_st' = "idle"
    /\ UNCHANGED <<ws_mem, host_pc, host_sent, host_result, worker_work, worker_reported>>
    /\ UNCHANGED <<coordVars, chainVars, storeVars, collatorVars, validationVars, selectionVars, attachVars, requesterVars>>

\* HostHandle::wait_until_ready, the event signaled before the timeout.
WaitUntilReady ==
    /\ host_pc = "start"
    /\ ws_events.worker_ready
    /\ ws_events' = [ws_events EXCEPT !.worker_ready = FALSE]
    /\ host_pc' = "ready"
    /\ UNCHANGED <<ws_mem, host_sent, host_result, worker_st, worker_work, worker_reported>>
    /\ UNCHANGED <<coordVars, chainVars, storeVars, collatorVars, validationVars, selectionVars, attachVars, requesterVars>>

\* HostHandle::wait_until_ready timing out: the host gives the workspace up.
WaitUntilReadyTimeout ==
    /\ host_pc = "start"
    /\ ~ws_events.worker_ready
    /\ host_pc' = "failed"
    /\ UNCHANGED <<ws_mem, ws_events, host_sent, host_result, worker_st, worker_work, worker_reported>>
    /\ UNCHANGED <<coordVars, chainVars, storeVars, collatorVars, validationVars, selectionVars, attachVars, requesterVars>>

\* HostHandle::request_validation
RequestValidation(code) ==
    /\ host_pc = "ready"
    /\ Len(host_sent) < MaxRequests
    /\ LET params == ParamsOf(Len(host_sent) + 1)
           res    == request_validation(ws_mem, code, params)
       IN  IF res[1] = "Ok"
           THEN /\ ws_mem' = res[2]
                /\ ws_events' = [ws_events EXCEPT !.candidate_ready = TRUE]
                /\ host_sent' = Append(host_sent, <<params, code>>)
                /\ host_pc' = "requested"
           ELSE UNCHANGED <<ws_mem, ws_events, host_sent, host_pc>>
    /\ UNCHANGED <<host_result, worker_st, worker_work, worker_reported>>
    /\ UNCHANGED <<coordVars, chainVars, storeVars, collatorVars, validationVars, selectionVars, attachVars, requesterVars>>

\* HostHandle::wait_for_result, the event signaled before the timeout.
WaitForResult ==
    /\ host_pc = "requested"
    /\ ws_events.result_ready
    /\ ws_events' = [ws_events EXCEPT !.result_ready = FALSE]
    /\ host_result' = Some([request |-> Len(host_sent), returned |-> decode_result(ws_mem)])
    /\ host_pc' = "ready"
    /\ UNCHANGED <<ws_mem, host_sent, worker_st, worker_work, worker_reported>>
    /\ UNCHANGED <<coordVars, chainVars, storeVars, collatorVars, validationVars, selectionVars, attachVars, requesterVars>>

\* HostHandle::wait_for_result timing out.
WaitForResultTimeout ==
    /\ host_pc = "requested"
    /\ ~ws_events.result_ready
    /\ host_result' = Some([request |-> Len(host_sent), returned |-> <<"Err", "Wait">>])
    /\ host_pc' = "ready"
    /\ UNCHANGED <<ws_mem, ws_events, host_sent, worker_st, worker_work, worker_reported>>
    /\ UNCHANGED <<coordVars, chainVars, storeVars, collatorVars, validationVars, selectionVars, attachVars, requesterVars>>

\* WorkerHandle::wait_for_work, the event signaled before the timeout.
WaitForWork ==
    /\ worker_st = "idle"
    /\ ws_events.candidate_ready
    /\ ws_events' = [ws_events EXCEPT !.candidate_ready = FALSE]
    /\ worker_work' = Some(work_item(ws_mem))
    /\ worker_st' = IF work_item(ws_mem)[1] = "Ok" THEN "working" ELSE "panicked"
    /\ UNCHANGED <<ws_mem, host_pc, host_sent, host_result, worker_reported>>
    /\ UNCHANGED <<coordVars, chainVars, storeVars, collatorVars, validationVars, selectionVars, attachVars, requesterVars>>

\* WorkerHandle::wait_for_work timing out; the worker waits again.
WaitForWorkTimeout ==
    /\ worker_st = "idle"
    /\ ~ws_events.candidate_ready
    /\ worker_work' = Some(<<"Err", "Wait">>)
    /\ UNCHANGED <<ws_mem, ws_events, host_pc, host_sent, host_result, worker_st, worker_reported>>
    /\ UNCHANGED <<coordVars, chainVars, storeVars, collatorVars, validationVars, selectionVars, attachVars, requesterVars>>

\* WorkerHandle::report_result with the worker's answer to the item it holds.
ReportResult ==
    /\ worker_st = "working"
    /\ LET item   == Unwrap(worker_work)
           result == answer(item[2], item[3])
       IN  /\ ws_mem' = write_region(ws_mem, encode_result(result))
           /\ worker_reported' = Append(worker_reported, result)
    /\ ws_events' = [ws_events EXCEPT !.result_ready = TRUE]
    /\ worker_st' = "idle"
    /\ UNCHANGED <<host_pc, host_sent, host_result, worker_work>>
    /\ UNCHANGED <<coordVars, chainVars, storeVars, collatorVars, validationVars, selectionVars, attachVars, requesterVars>>

ProtocolNext ==
    \/ SignalReady
    \/ WaitUntilReady
    \/ WaitUntilReadyTimeout
    \/ \E code \in Codes : RequestValidation(code)
    \/ WaitForResult
    \/ WaitForResultTimeout
    \/ WaitForWork
    \/ WaitForWorkTimeout
    \/ ReportResult

SpecProtocol == ProtocolInit /\ [][ProtocolNext]_vars

(***************************************************************************)
(*                      LARGE STATEMENT FETCH TASK                         *)
(* fetch() of statement distribution: one background task that asks peers  *)
(* for a CommittedCandidateReceipt through the subsystem, which answers    *)
(* its Verify and GetMorePeers messages.                                   *)
(***************************************************************************)

\* The number of peers the subsystem knows for the candidate.
MaxPeers == 2
Peers == 1 .. MaxPeers

\* The vectors of distinct peers, as the subsystem hands them to the task.
PeerLists(S) ==
    {q \in SeqsUpTo(S, Cardinality(S)) : \A i, j \in 1 .. Len(q) : i # j => q[i] # q[j]}

peer_set(v) == {v[i] : i \in 1 .. Len(v)}

\* C35 mutant: the peers that failed are put behind the new arrivals, so
\* that they are popped first.
refill_old_last(tried_peers, arrivals) == arrivals \o tried_peers

\* "new_peers = std::mem::take(&mut tried_peers)" followed by
\* "new_peers.append(&mut peers)": Vec::pop takes from the end, the new
\* arrivals are tried first.
refill(tried_peers, arrivals) == tried_peers \o arrivals

\* fetch() called with `peers`; the subsystem holds the receiver.
RequesterInit ==
    /\ CoordInit
    /\ ChainIdle
    /\ StoreIdle
    /\ CollatorIdle
    /\ ValidationIdle
    /\ SelectionIdle
    /\ WorkspaceIdle
    /\ rq_pc = "loop"
    /\ rq_peer = None
    /\ rq_new_peers \in PeerLists(Peers)
    /\ rq_tried_peers = <<>>
    /\ rq_open = TRUE
    /\ rq_out = None
    /\ rq_stop = None
    /\ rq_pending = 0
    /\ rq_untried = peer_set(rq_new_peers)
    /\ rq_rejected = {}

\* fetch() returns.
rq_return(why) ==
    /\ rq_pc' = "done"
    /\ rq_stop' = Some(why)

\* "while let Some(peer) = new_peers.pop()" and the feed of SendRequest.
PopPeer ==
    /\ rq_pc = "loop"
    /\ rq_new_peers # <<>>
    /\ LET peer == rq_new_peers[Len(rq_new_peers)]
       IN  /\ rq_new_peers' = SubSeq(rq_new_peers, 1, Len(rq_new_peers) - 1)
           /\ rq_peer' = Some(peer)
           /\ IF rq_open
              THEN /\ rq_out' = Some(<<"SendRequest", peer>>)
                   /\ rq_pending' = rq_pending + 1
                   /\ rq_untried' = rq_untried \ {peer}
                   /\ rq_pc' = "response"
                   /\ UNCHANGED rq_stop
              ELSE /\ rq_return("closed")
                   /\ UNCHANGED <<rq_out, rq_pending, rq_untried>>
    /\ UNCHANGED <<rq_tried_peers, rq_open, rq_rejected>>
    /\ UNCHANGED <<coordVars, chainVars, storeVars, collatorVars, validationVars, selectionVars, workspaceVars>>

\* pending_response resolves to Err: "tried_peers.push(peer)".
ResponseFails ==
    /\ rq_pc = "response"
    /\ rq_tried_peers' = Append(rq_tried_peers, Unwrap(rq_peer))
    /\ rq_pending' = rq_pending - 1
    /\ rq_pc' = "loop"
    /\ UNCHANGED <<rq_peer, rq_new_peers, rq_open, rq_out, rq_stop, rq_untried, rq_rejected>>
    /\ UNCHANGED <<coordVars, chainVars, storeVars, collatorVars, validationVars, selectionVars, workspaceVars>>

\* pending_response resolves to a statement: Verify is sent; when the send
\* fails, carry_on is dropped with the message and the task returns.
ResponseArrives ==
    /\ rq_pc = "response"
    /\ rq_pending' = rq_pending - 1
    /\ IF rq_open
       THEN /\ rq_out' = Some(<<"Verify", Unwrap(rq_peer), rq_tried_peers>>)
            /\ rq_pc' = "carry_on"
            /\ UNCHANGED rq_stop
       ELSE /\ rq_return("closed")
            /\ UNCHANGED rq_out
    /\ UNCHANGED <<rq_peer, rq_new_peers, rq_tried_peers, rq_open, rq_untried, rq_rejected>>
    /\ UNCHANGED <<coordVars, chainVars, storeVars, collatorVars, validationVars, selectionVars, workspaceVars>>

\* carry_on resolves to Ok(()): the response was rejected, "continue" without
\* pushing the peer.
CarryOn ==
    /\ rq_pc = "carry_on"
    /\ rq_open
    /\ rq_rejected' = rq_rejected \cup {Unwrap(rq_peer)}
    /\ rq_pc' = "loop"
    /\ UNCHANGED <<rq_peer, rq_new_peers, rq_tried_peers, rq_open, rq_out, rq_stop, rq_pending, rq_untried>>
    /\ UNCHANGED <<coordVars, chainVars, storeVars, collatorVars, validationVars, selectionVars, workspaceVars>>

\* carry_on resolves to Err: its sender was dropped, by the subsystem that
\* accepted the response or with the closed channel. "We are done now."
CarryOnDropped ==
    /\ rq_pc = "carry_on"
    /\ rq_return(IF rq_open THEN "accepted" ELSE "closed")
    /\ UNCHANGED <<rq_peer, rq_new_peers, rq_tried_peers, rq_open, rq_out, rq_pending, rq_untried, rq_rejected>>
    /\ UNCHANGED <<coordVars, chainVars, storeVars, collatorVars, validationVars, selectionVars, workspaceVars>>

\* new_peers is empty: the peers that failed are taken back and
\* try_get_new_peers sends GetMorePeers.
AskMorePeers ==
    /\ rq_pc = "loop"
    /\ rq_new_peers = <<>>
    /\ rq_new_peers' = rq_tried_peers
    /\ rq_tried_peers' = <<>>
    /\ IF rq_open
       THEN /\ rq_out' = Some(<<"GetMorePeers">>)
            /\ rq_pc' = "more_peers"
            /\ UNCHANGED rq_stop
       ELSE /\ rq_return("closed")
            /\ UNCHANGED rq_out
    /\ UNCHANGED <<rq_peer, rq_open, rq_pending, rq_untried, rq_rejected>>
    /\ UNCHANGED <<coordVars, chainVars, storeVars, collatorVars, validationVars, selectionVars, workspaceVars>>

\* try_get_new_peers: the subsystem answers with peers before RETRY_TIMEOUT.
MorePeers(arrivals) ==
    /\ rq_pc = "more_peers"
    /\ rq_open
    /\ rq_new_peers' = refill(rq_new_peers, arrivals)
    /\ rq_untried' = rq_untried \cup peer_set(arrivals)
    /\ rq_rejected' = rq_rejected \ peer_set(arrivals)
    /\ rq_pc' = "loop"
    /\ UNCHANGED <<rq_peer, rq_tried_peers, rq_open, rq_out, rq_stop, rq_pending>>
    /\ UNCHANGED <<coordVars, chainVars, storeVars, collatorVars, validationVars, selectionVars, workspaceVars>>

\* try_get_new_peers: RETRY_TIMEOUT passes without an answer, Ok(None).
MorePeersTimeout ==
    /\ rq_pc = "more_peers"
    /\ rq_pc' = "loop"
    /\ UNCHANGED <<rq_peer, rq_new_peers, rq_tried_peers, rq_open, rq_out, rq_stop, rq_pending, rq_untried, rq_rejected>>
    /\ UNCHANGED <<coordVars, chainVars, storeVars, collatorVars, validationVars, selectionVars, workspaceVars>>

\* try_get_new_peers: the reply sender was dropped without an answer (by the
\* subsystem, or with the closed channel): Err(()), fetch returns.
MorePeersCanceled ==
    /\ rq_pc = "more_peers"
    /\ rq_return(IF rq_open THEN "canceled" ELSE "closed")
    /\ UNCHANGED <<rq_peer, rq_new_peers, rq_tried_peers, rq_open, rq_out, rq_pending, rq_untried, rq_rejected>>
    /\ UNCHANGED <<coordVars, chainVars, storeVars, collatorVars, validationVars, selectionVars, workspaceVars>>

\* The subsystem drops the receiver of the task's messages.
CloseChannel ==
    /\ rq_open
    /\ rq_pc # "done"
    /\ rq_open' = FALSE
    /\ UNCHANGED <<rq_pc, rq_peer, rq_new_peers, rq_tried_peers, rq_out, rq_stop, rq_pending, rq_untried, rq_rejected>>
    /\ UNCHANGED <<coordVars, chainVars, storeVars, collatorVars, validationVars, selectionVars, workspaceVars>>

\* The peers the subsystem can hand out: those the task does not hold.
Arrivals == PeerLists(Peers \ (peer_set(rq_new_peers) \cup peer_set(rq_tried_peers))) \ {<<>>}

RequesterNext ==
    \/ PopPeer
    \/ ResponseFails
    \/ ResponseArrives
    \/ CarryOn
    \/ CarryOnDropped
    \/ AskMorePeers
    \/ \E arrivals \in Arrivals : MorePeers(arrivals)
    \/ MorePeersTimeout
    \/ MorePeersCanceled
    \/ CloseChannel

SpecRequester == RequesterInit /\ [][RequesterNext]_vars

(***************************************************************************)
(*                   Properties of the dispute coordinator                 *)
(***************************************************************************)

StoredVotes(p) == load_votes(p[1], p[2])
Threshold == supermajority_threshold(NumValidators)

StrictlyAscending(vec) ==
    \A i \in 1 .. Len(vec) : \A j \in 1 .. Len(vec) : i < j => vec[i].idx < vec[j].idx

\* C7: for every stored (session, candidate) the valid and the invalid vote list
\* are sorted ascending by validator index and hold no validator index twice.
C7_VotesSortedNoDuplicates ==
    \A p \in Pairs :
        IsSome(candidate_votes[p]) =>
            /\ StrictlyAscending(StoredVotes(p).valid)
            /\ StrictlyAscending(StoredVotes(p).invalid)

\* C7 witness: every validator's valid vote and at least two invalid votes are
\* stored for a candidate, imported in some order.
C7_Witness ==
    \E p \in Pairs :
        /\ Len(StoredVotes(p).valid) = NumValidators
        /\ Len(StoredVotes(p).invalid) >= 2

\* The spec's statuses read off the coordinator's store: a dispute is concluded
\* against once its invalid votes reach the supermajority, and it is on record
\* as unresolved while it is in the active disputes.
ConcludedAgainst(p) ==
    /\ is_disputed(StoredVotes(p))
    /\ Len(StoredVotes(p).invalid) >= Threshold

\* C8: once a dispute is ConcludedAgainst it never becomes Active or
\* ConcludedFor again: an import does not take a dispute whose invalid votes
\* reached the supermajority off the record of unresolved disputes.
C8_ConcludedAgainstIsFinal ==
    [][\A p \in Pairs :
          (/\ ConcludedAgainst(p)
           /\ p \in loaded_active_disputes
           /\ candidate_votes'[p] # None)
              => (IsSome(active_disputes') /\ p \in Unwrap(active_disputes'))]_vars

\* C9: when the invalid votes stored for a (session, candidate) reach the
\* supermajority the candidate counts as possibly invalid for
\* DetermineUndisputedChain, also when the dispute had concluded in favour:
\* a chain whose first block includes it has no undisputed block.
C9_InvalidSupermajorityBlocksChain ==
    \A p \in Pairs :
        ConcludedAgainst(p) =>
            determine_undisputed_chain(
                active_disputes, 0,
                <<[hash |-> BlockHash(1), session |-> p[1], candidates |-> {p[2]}]>>)
              = ReplyNone

\* C10: a statement whose claimed validator index does not correspond to the
\* signer's public key is dropped: every stored vote was signed by the
\* validator of its index.
C10_ForgedStatementsDropped ==
    \A p \in Pairs :
        /\ \A i \in 1 .. Len(StoredVotes(p).valid) :
               StoredVotes(p).valid[i].sig = StoredVotes(p).valid[i].idx
        /\ \A i \in 1 .. Len(StoredVotes(p).invalid) :
               StoredVotes(p).invalid[i].sig = StoredVotes(p).invalid[i].idx

\* Votes on both sides are stored for the pair, and the stored valid votes
\* have reached the supermajority.
Disputed(p) == StoredVotes(p).valid # <<>> /\ StoredVotes(p).invalid # <<>>
ConcludedFor(p) == Disputed(p) /\ Len(StoredVotes(p).valid) >= Threshold

\* C30: when an import brings the valid votes of an already disputed
\* (session, candidate) to the supermajority, the pair leaves the active
\* disputes in the step that stores the votes, and it is in the active
\* disputes in no later state, so that a chain whose block includes the
\* candidate has that block as its undisputed block.
C30_ConcludedValidLeavesActive ==
    /\ [][\A p \in Pairs :
             (Disputed(p) /\ ~ConcludedFor(p) /\ ConcludedFor(p)') =>
                 p \notin disputes_or_default(active_disputes')]_vars
    /\ [](\A p \in Pairs :
             ConcludedFor(p) =>
                 /\ p \notin disputes_or_default(active_disputes)
                 /\ determine_undisputed_chain(
                        active_disputes, 0,
                        <<[hash |-> BlockHash(1), session |-> p[1], candidates |-> {p[2]}]>>)
                      = ReplySome(1, BlockHash(1)))

\* C30 witness: a pair that entered the active disputes (its Participate was
\* sent) and whose valid votes reached the supermajority in a later import.
C30_Witness ==
    \E p \in Pairs :
        /\ participate_sent[p] = 1
        /\ ConcludedFor(p)
        /\ p \notin disputes_or_default(active_disputes)

\* The session is older than the dispute window.
OutsideWindow(session) ==
    IsSome(highest_session) /\ session + DISPUTE_WINDOW < Unwrap(highest_session)

\* C11: no step changes the stored votes of a (session, candidate) whose
\* session + DISPUTE_WINDOW is below the highest session seen, enters or removes
\* it from the active disputes, or sends a Participate for it: an
\* ImportStatements for such a session has no effect.
C11_OldSessionImportDropped ==
    [][\A p \in Pairs :
          OutsideWindow(p[1]) =>
              /\ candidate_votes'[p] = candidate_votes[p]
              /\ participate_sent'[p] = participate_sent[p]
              /\ (p \in disputes_or_default(active_disputes'))
                     = (p \in disputes_or_default(active_disputes))]_vars

\* C11 witness: a candidate that was disputed in its session, with the session
\* now older than the dispute window; the imports for it are dropped.
C11_Witness ==
    \E p \in Pairs :
        /\ OutsideWindow(p[1])
        /\ participate_sent[p] = 1
        /\ candidate_votes[p] = None
        /\ p \notin loaded_active_disputes

\* C12: while the votes stored for a (session, candidate) are all on one side
\* no Participate was sent for it and it is not in the reply to ActiveDisputes.
C12_OneSidedNeverDisputed ==
    \A p \in Pairs :
        (/\ IsSome(candidate_votes[p])
         /\ (StoredVotes(p).valid = <<>> \/ StoredVotes(p).invalid = <<>>))
            => (participate_sent[p] = 0 /\ p \notin loaded_active_disputes)

\* C12 witness: only valid votes, from every validator, are stored for a
\* candidate; nothing was sent and the active disputes are empty.
C12_Witness ==
    \E p \in Pairs :
        /\ Len(StoredVotes(p).valid) = NumValidators
        /\ StoredVotes(p).invalid = <<>>
        /\ participate_sent[p] = 0
        /\ loaded_active_disputes = {}

\* The outcome of importing `statements` for p in the current state, and of
\* importing them once more right after.
FirstImport(p, statements) ==
    import_outcome(candidate_votes[p], active_disputes, p[2], p[1], statements)

SecondImport(p, statements) ==
    import_outcome(FirstImport(p, statements).votes, FirstImport(p, statements).active,
                   p[2], p[1], statements)

\* C13: in every state, importing an ImportStatements message a second time
\* leaves the stored votes and the active disputes as the first import left
\* them and sends no Participate (an import that is dropped changes nothing
\* either time).
C13_SecondImportChangesNothing ==
    \A p \in Pairs : \A b \in Batches :
        ~import_dropped(p[1]) =>
            LET first == FirstImport(p, b)
                second == import_outcome(first.votes, first.active, p[2], p[1], b)
            IN  /\ second.votes = first.votes
                /\ second.active = first.active
                /\ second.participate = 0

\* C13 witness: a message of the greatest length whose import starts a dispute
\* (one Participate, the pair enters the active disputes) can be imported in a
\* state that already holds a vote.
C13_Witness ==
    \E p \in Pairs : \E b \in Batches :
        /\ ~import_dropped(p[1])
        /\ Len(b) = MaxBatch
        /\ IsSome(candidate_votes[p])
        /\ FirstImport(p, b).participate = 1
        /\ p \in Unwrap(FirstImport(p, b).active)
        /\ SecondImport(p, b).votes = FirstImport(p, b).votes

\* The validator indices a local statement on p is signed for: those whose key
\* is in the keystore and that have no vote stored for p.
LocalSigners(p) == {i \in Validators : i \in LocalKeys /\ i \notin voted_indices(StoredVotes(p))}

C38_ActiveIffDisputedAndUnconcluded ==
    \A p \in Pairs :
        (p \in disputes_or_default(active_disputes))
            <=> (/\ IsSome(candidate_votes[p])
                 /\ Len(Unwrap(candidate_votes[p]).valid) >= 1
                 /\ Len(Unwrap(candidate_votes[p]).invalid) >= 1
                 /\ Len(Unwrap(candidate_votes[p]).valid) < Threshold)

\* C38 witness: a dispute of session 1 was begun and then purged with its
\* session, and a dispute of the session now current is active with votes on
\* both sides.
C38_Witness ==
    /\ participate_sent[<<1, "cA">>] = 1
    /\ candidate_votes[<<1, "cA">>] = None
    /\ <<8, "cA">> \in disputes_or_default(active_disputes)
    /\ Len(StoredVotes(<<8, "cA">>).valid) = Threshold - 1
    /\ StoredVotes(<<8, "cA">>).invalid # <<>>

\* C32: a step in which the handling of an ActiveLeaves signal fails on its
\* chain API request changes nothing an import depends on: every
\* ImportStatements that would be stored before the failure (its session is
\* inside the dispute window and has session info) would be stored after it,
\* with the same votes and the same active disputes to start from.
C32_FailureKeepsLaterImports ==
    [][HeaderRequestFails =>
          \A p \in Pairs :
              ~import_dropped(p[1]) =>
                  /\ ~import_dropped(p[1])'
                  /\ candidate_votes'[p] = candidate_votes[p]
                  /\ active_disputes' = active_disputes]_vars

\* C39: a step in which the database write of an import fails has sent no
\* Participate.
C39_NoParticipateWithoutWrite ==
    [][\A p \in Pairs : \A b \in Batches :
          ImportWriteFails(p[2], p[1], b) => participate_sent' = participate_sent]_vars

(***************************************************************************)
(*                   Properties of collation generation                    *)
(***************************************************************************)

\* The (relay parent, position) of the cores on record.
CorePositions == {x \in CgLeaves \X (1 .. MaxCores) : x[2] <= Len(cg_leaves[x[1]].cores)}

CoreAt(x) == cg_leaves[x[1]].cores[x[2]]

\* The core is Scheduled for the para_id of the config.
ScheduledForConfig(r) ==
    r.core = "Scheduled" /\ IsSome(cg_config) /\ r.para = Unwrap(cg_config)

C15_ActivationErrorDoesNotAbort == cg_stop # "activation_error"

\* C16: the stored config is the one of the first Initialize, and a second
\* Initialize ends the run loop, after which no message is handled.
C16_DoubleInitializeRejected ==
    /\ Len(cg_inits) <= 2
    /\ Len(cg_inits) >= 1 => cg_config = Some(cg_inits[1])
    /\ Len(cg_inits) = 2 => cg_stop = "double_init"

\* C16 witness: two Initialize messages with different configs were received.
C16_Witness ==
    /\ Len(cg_inits) = 2
    /\ cg_inits[1] # cg_inits[2]
    /\ cg_config = Some(cg_inits[1])
    /\ cg_stop = "double_init"

(***************************************************************************)
(*                   Properties of candidate validation                    *)
(***************************************************************************)

\* The proof of validity of message m does not hash to the descriptor's
\* pov_hash, or the descriptor's signature is not the declared collator's
\* signature over the descriptor's own payload.
FailsBasicChecks(m) ==
    \/ m.descriptor.pov_hash # <<"hash", m.pov>>
    \/ m.descriptor.signature[2] # m.descriptor.collator
    \/ m.descriptor.signature[3] # <<m.descriptor.persisted_validation_data_hash, m.descriptor.pov_hash>>

\* C17: when the proof of validity's hash differs from the descriptor's
\* pov_hash or the collator signature is invalid, the validation backend is
\* never called for the request, and the exhaustive validation that was
\* started for it answers Invalid(HashMismatch) or Invalid(BadSignature).
C17_BasicCheckFailureSkipsBackend ==
    (IsSome(cv_message) /\ FailsBasicChecks(Unwrap(cv_message))) =>
        /\ cv_backend = <<>>
        /\ cv_spawned # <<>> =>
            /\ IsSome(cv_reply)
            /\ Unwrap(cv_reply)[1] = "Ok"
            /\ Unwrap(cv_reply)[2][1] = "Invalid"
            /\ Unwrap(cv_reply)[2][2] \in {<<"HashMismatch">>, <<"BadSignature">>}

\* An exhaustive validation ran for a candidate whose proof of validity has
\* the right hash but whose signature is another collator's: BadSignature.
C17_Witness ==
    /\ IsSome(cv_message)
    /\ Unwrap(cv_message).descriptor.pov_hash = <<"hash", Unwrap(cv_message).pov>>
    /\ FailsBasicChecks(Unwrap(cv_message))
    /\ cv_spawned # <<>>
    /\ cv_backend = <<>>
    /\ cv_reply = Some(<<"Ok", <<"Invalid", <<"BadSignature">>>>>>)

\* The last message was a ValidateFromChainState.
FromChainState == IsSome(cv_message) /\ Unwrap(cv_message).kind = "ValidateFromChainState"

\* The positions in the request log of the FullValidationData requests made
\* under `assumption`.
Fetched(assumption) ==
    {i \in 1 .. Len(cv_requests) : cv_requests[i].request = <<"FullValidationData", assumption>>}

\* The positions of the FullValidationData requests answered with validation
\* data, and of those among them whose persisted data hashes to the
\* descriptor's persisted_validation_data_hash.
WithData ==
    {i \in Fetched("Included") \cup Fetched("TimedOut") :
        cv_requests[i].answer[1] = "Ok" /\ cv_requests[i].answer[2] # None}

WithMatchingData ==
    {i \in WithData : <<"hash", cv_requests[i].answer[2][1].persisted>>
                        = Unwrap(cv_message).descriptor.persisted_validation_data_hash}

\* Validation data is fetched under Included first, and under TimedOut only
\* after it was fetched under Included.
IncludedThenTimedOut ==
    /\ cv_requests # <<>>
    /\ cv_requests[1].request = <<"FullValidationData", "Included">>
    /\ \A i \in Fetched("TimedOut") : \E j \in Fetched("Included") : j < i

\* Exhaustive validation was started once, with the validation data answered
\* at position i of the request log.
DrivenBy(i) ==
    /\ Len(cv_spawned) = 1
    /\ cv_spawned[1].persisted = cv_requests[i].answer[2][1].persisted
    /\ cv_spawned[1].transient = Some(cv_requests[i].answer[2][1].transient)

BadParent == Some(<<"Ok", <<"Invalid", <<"BadParent">>>>>>)

\* C18 as stated: for a ValidateFromChainState that the subsystem handled,
\* validation data is fetched under Included and then TimedOut, the first
\* assumption whose data hash matches the descriptor's drives exhaustive
\* validation, and whenever no fetched hash matches the reply is
\* Invalid(BadParent).
C18_NoMatchIsBadParent ==
    (FromChainState /\ cv_stop = "running") =>
        /\ IncludedThenTimedOut
        /\ IF WithMatchingData # {}
           THEN \E i \in WithMatchingData : (\A j \in WithMatchingData : i <= j) /\ DrivenBy(i)
           ELSE cv_reply = BadParent

\* C18, amended: validation data is fetched under Included first and under
\* TimedOut only afterwards; a request that cannot be made or whose channel is
\* dropped ends the subsystem without a reply; a request for validation data
\* or validation code answered with an error or with nothing gives
\* ValidationFailed("Bad request"); otherwise the first assumption whose data
\* hash matches the descriptor's drives exhaustive validation (if its task can
\* be spawned), and only such data ever does; and the reply is
\* Invalid(BadParent) exactly when both assumptions returned validation data
\* and neither hash matches.
C18_AssumptionSelection ==
    FromChainState =>
        LET all == 1 .. Len(cv_requests)
            canceled == \E i \in all : cv_requests[i].answer[1] = "Canceled"
            refused == \E i \in all : cv_requests[i].answer \in {<<"Err", None>>, <<"Ok", None>>}
        IN  /\ IncludedThenTimedOut
            /\ canceled => cv_reply = None /\ cv_spawned = <<>> /\ cv_stop = "failed"
            /\ refused => cv_reply = Some(<<"Err", <<"ValidationFailed", "Bad request">>>>) /\ cv_spawned = <<>>
            /\ (~canceled /\ ~refused /\ WithMatchingData # {}) =>
                    \/ cv_spawned = <<>> /\ cv_reply = None /\ cv_stop = "failed"
                    \/ \E i \in WithMatchingData : (\A j \in WithMatchingData : i <= j) /\ DrivenBy(i)
            /\ cv_spawned # <<>> => \E i \in WithMatchingData : DrivenBy(i)
            /\ cv_reply = BadParent <=>
                    /\ Fetched("Included") # {}
                    /\ Fetched("TimedOut") # {}
                    /\ WithData = Fetched("Included") \cup Fetched("TimedOut")
                    /\ WithMatchingData = {}

\* The data fetched under Included did not match, the data fetched under
\* TimedOut did, the code was fetched and the candidate validated with it.
C18_Witness ==
    /\ FromChainState
    /\ Len(cv_requests) = 3
    /\ WithMatchingData = Fetched("TimedOut")
    /\ \E i \in Fetched("TimedOut") : DrivenBy(i)
    /\ IsSome(cv_reply)
    /\ Unwrap(cv_reply)[1] = "Ok"
    /\ Unwrap(cv_reply)[2][1] = "Valid"

\* C19: when the backend returns an internal error the reply is
\* ValidationFailed(message), and when it returns that the candidate is
\* invalid (timeout, params too large, code too large, bad return, executor
\* error) the reply is Invalid of the corresponding kind.
C19_InternalFailsInvalidRejects ==
    (cv_backend # <<>> /\ cv_backend[1][1] = "Err") =>
        LET e == cv_backend[1][2]
        IN  /\ IsSome(cv_reply)
            /\ IF e[1] = "Internal"
               THEN Unwrap(cv_reply) = <<"Err", <<"ValidationFailed", e[2]>>>>
               ELSE /\ Unwrap(cv_reply)[1] = "Ok"
                    /\ Unwrap(cv_reply)[2][1] = "Invalid"
                    /\ Unwrap(cv_reply)[2][2][1] =
                         IF e[2][1] \in {"WasmExecutor", "ExternalWasmExecutor"}
                         THEN "ExecutionError"
                         ELSE e[2][1]

\* The backend was called and returned an internal error.
C19_Witness ==
    /\ cv_backend = << <<"Err", <<"Internal", "io">>>> >>
    /\ cv_reply = Some(<<"Err", <<"ValidationFailed", "io">>>>)

\* C27: the subsystem stays responsive to Conclude at every suspension
\* point: a Conclude sent while a handler awaits a reply from another
\* subsystem is still observed, so the subsystem eventually exits even if the
\* reply never arrives.
C27_ConcludeObservedWhileAwaiting ==
    cv_conclude_sent ~> (cv_stop # "running")

(***************************************************************************)
(*                     Properties of chain selection                       *)
(***************************************************************************)

\* The stored blocks, and among them the unviable ones: those marked so in
\* their entry and those with a stored reverted block among themselves and
\* their ancestors.
StoredBlocks == {b \in Blocks : cs_entries[b].stored}

Unviable(entries, b) ==
    \/ entries[b].reverted
    \/ entries[b].unviable_ancestor
    \/ \E x \in ancestry(b) \cap Blocks : entries[x].stored /\ entries[x].reverted

\* No leaf is unviable.
NoUnviableLeaf == \A l \in leaf_set(cs_leaves) : l \in StoredBlocks /\ ~Unviable(cs_entries, l)

\* The deepest viable ancestor of every unviable block, when it has a viable
\* ancestor in the forest, is a leaf or has a descendant that is a leaf.
ViablePrefixHasLeaf ==
    \A u \in StoredBlocks :
        LET viable_ancestors == {x \in ancestry(u) \cap StoredBlocks : ~Unviable(cs_entries, x)}
        IN  (Unviable(cs_entries, u) /\ viable_ancestors # {}) =>
                LET deepest == CHOOSE x \in viable_ancestors : \A y \in viable_ancestors : y[2] <= x[2]
                IN  \/ deepest \in leaf_set(cs_leaves)
                    \/ \E l \in leaf_set(cs_leaves) : deepest \in ancestry(l)

\* A step that finalizes a block leaves every block of a reverted subtree
\* whose reverted root stays in the forest unviable and out of the leaves.
FinalizationKeepsUnviable ==
    cs_finalized' # cs_finalized =>
        \A b \in Blocks :
            (\E x \in (ancestry(b) \cup {b}) \cap Blocks :
                /\ cs_entries[x].stored /\ cs_entries[x].reverted /\ cs_entries'[x].stored
                /\ cs_entries[b].stored /\ cs_entries'[b].stored)
            => Unviable(cs_entries', b) /\ b \notin leaf_set(cs_leaves')

DescendFromFinalized ==
    /\ \A b \in StoredBlocks : b[2] > cs_finalized[2] /\ cs_finalized \in ancestry(b)
    /\ \A l \in leaf_set(cs_leaves) : l[2] > cs_finalized[2] /\ cs_finalized \in ancestry(l)

\* A step that finalizes a block deletes every block at or below its number
\* that is not on the finalized chain, with all the descendants of that block.
FinalizationPrunes ==
    cs_finalized' # cs_finalized =>
        \A x \in StoredBlocks :
            (x[2] <= cs_finalized'[2] /\ x \notin ancestry(cs_finalized') \cup {cs_finalized'}) =>
                \A d \in StoredBlocks : (d = x \/ x \in ancestry(d)) => ~cs_entries'[d].stored

\* C22: after BlockFinalized(h, n) every block at a number <= n that is not on
\* the finalized chain is deleted together with all of its descendants, no
\* block entry at a number <= n remains, and every remaining stored block and
\* leaf descends from h.
C22_FinalizationPrunesSubtrees ==
    /\ []DescendFromFinalized
    /\ [][FinalizationPrunes]_vars

\* C22 witness: b2 was finalized; its child b3 is what remains of the forest,
\* of which a2, a3 and c1 are no part.
C22_Witness ==
    /\ cs_finalized = <<"b", 2>>
    /\ StoredBlocks = {<<"b", 3>>}
    /\ cs_leaves = << <<"b", 3>> >>

\* C23: a reversion entry that names a number at or after the reverting
\* block's own number, or at or below the finalized number, has no effect:
\* importing the headers with the entry leaves the entries, their viability
\* and the leaves exactly as importing them without it does.
C23_IgnoredReversionHasNoEffect ==
    \A h \in Blocks :
        (~cs_entries[h].stored /\ cs_finalized \in ancestry(h)) =>
            LET path == unknown_path(selection, h)
                none == [i \in 1 .. Len(path) |-> None]
                plain == import(selection, path, none)
            IN  \A i \in 1 .. Len(path) : \A r \in 0 .. MaxNumber :
                    (r >= path[i][2] \/ r <= cs_finalized[2]) =>
                        import(selection, path, [none EXCEPT ![i] = Some(r)]) = plain

\* C23 witness: a1 is finalized and a2 is the leaf; a header of a3 can name
\* its own number 3, the finalized number 1 or the number 0 below it.
C23_Witness ==
    /\ cs_finalized = <<"a", 1>>
    /\ cs_leaves = << <<"a", 2>> >>
    /\ ~cs_entries[<<"a", 3>>].stored

\* C24: finality_target(target_hash, maybe_max_number) returns a block: the
\* deepest block on the best-weighted leaf chain containing target_hash whose
\* number is at most maybe_max_number and up to which all blocks are approved
\* and free of unresolved disputes, or target_hash itself when there is no
\* better block. Whatever that block is, the call returns Ok(Some(block)) with
\* a block of the forest or the finalized block.
C24_FinalityTargetReturnsBlock ==
    IsSome(ft_reply) =>
        /\ Unwrap(ft_reply)[1] = "Ok"
        /\ Unwrap(ft_reply)[2] \in {Some(b) : b \in Blocks \cup {Genesis}}

\* The place of a leaf in the ranking: its weight, its block number, and its
\* hash (as the rank of its chain).
LeafRank(b) == <<cs_weights[b], b[2], CHOOSE k \in 1 .. 3 : <<"a", "b", "c">>[k] = b[1]>>

RankAbove(x, y) ==
    \/ x[1] > y[1]
    \/ x[1] = y[1] /\ x[2] > y[2]
    \/ x[1] = y[1] /\ x[2] = y[2] /\ x[3] > y[3]

\* C21: the leaves, read in order, are sorted descending by (weight, block
\* number, hash): every leaf ranks above the leaves behind it.
C21_LeavesSortedDescending ==
    \A i \in 1 .. Len(cs_leaves) : \A j \in 1 .. Len(cs_leaves) :
        i < j => RankAbove(LeafRank(cs_leaves[i]), LeafRank(cs_leaves[j]))

\* C21 witness: three leaves, the heaviest first, then of two leaves of equal
\* weight the one with the higher number.
C21_Witness ==
    /\ cs_leaves = << <<"c", 1>>, <<"a", 3>>, <<"b", 2>> >>
    /\ cs_weights[<<"c", 1>>] = 2
    /\ cs_weights[<<"a", 3>>] = 1
    /\ cs_weights[<<"b", 2>>] = 1

Attached == {w \in Workers : worker_pc[w] = "Ok(WorkerHandle)"}

\* C25: at most one worker ever attaches to the workspace: once one open(id)
\* has succeeded every later or concurrent open(id) fails. At most one process
\* holds a handle, and in a step in which one holds a handle no other call
\* of open returns one.
C25_AtMostOneWorkerAttaches ==
    /\ [](Cardinality(Attached) <= 1)
    /\ [][\A w \in Workers :
            (Attached # {} /\ worker_pc'[w] # worker_pc[w]) =>
                worker_pc'[w] \in {"opened", "laid out", "Err(opening)", "Err(already attached)"}]_vars

\* C25 witness: one open succeeded, a concurrent one was refused at the flag
\* and a later one failed to open the unlinked shared memory.
C25_Witness ==
    \E w1, w2, w3 \in Workers :
        /\ worker_pc[w1] = "Ok(WorkerHandle)"
        /\ worker_pc[w2] = "Err(already attached)"
        /\ worker_pc[w3] = "Err(opening)"

\* C33: a work item returned by wait_for_work holds the params and the code of
\* a request the host has written (wait_for_work neither panics nor returns
\* other bytes), and a result returned by wait_for_result is one the worker
\* has passed to report_result.
C33_ItemsAndResultsAreWhatWasWritten ==
    /\ IsSome(worker_work) =>
           \/ Unwrap(worker_work) = <<"Err", "Wait">>
           \/ \E i \in 1 .. Len(host_sent) :
                  Unwrap(worker_work) = <<"Ok", host_sent[i][1], host_sent[i][2]>>
    /\ (IsSome(host_result) /\ Unwrap(host_result).returned[1] = "Ok") =>
           \E i \in 1 .. Len(worker_reported) :
               worker_reported[i] = Unwrap(host_result).returned[2]

\* C40: a result returned by wait_for_result is the worker's answer to the
\* request the host made last before that call.
C40_ResultAnswersLastRequest ==
    (IsSome(host_result) /\ Unwrap(host_result).returned[1] = "Ok") =>
        Unwrap(host_result).returned[2]
            = <<"Ok", host_sent[Unwrap(host_result).request][1][1]>>

\* C34: an open(id) that could open the shared memory is refused at the
\* attached flag only when a worker is attached.
C34_OpenFailsOnlyWhenAttached ==
    \A w \in Workers :
        worker_pc[w] = "Err(already attached)" => Attached # {}

\* C36: an activation stores every unknown block between the activated
\* block and the nearest known or finalized block: afterwards each block of
\* the new chain above the finalized block has a block entry and is listed
\* in blocks_by_number under its own number.
C36_GapsAreImported ==
    [][\A h \in Blocks :
          (~cs_entries[h].stored /\ cs_entries'[h].stored) =>
              \A x \in (ancestry(h) \cup {h}) \cap Blocks :
                  x[2] > cs_finalized'[2] =>
                      /\ cs_entries'[x].stored
                      /\ x \in cs_blocks_by_number'[x[2]]]_vars

\* B3 was activated on a backend that knew neither B3 nor B2: both were
\* imported in the one activation, next to the chain A1 <- A2 <- A3.
C36_Witness ==
    /\ cs_walked = 2
    /\ cs_entries[<<"b", 3>>].stored
    /\ cs_entries[<<"a", 3>>].stored
    /\ cs_blocks_by_number[2] = {<<"a", 2>>, <<"b", 2>>}
    /\ cs_blocks_by_number[3] = {<<"a", 3>>, <<"b", 3>>}

\* C37: when no make_available call is under way, the META list of a relay
\* parent holds every candidate made available at it since its last
\* candidates_finalized, whichever handles the calls came through.
C37_MetaHoldsConcurrentCandidates ==
    (\A h \in DOMAIN in_flight : in_flight[h] = None) =>
        \A p \in RelayParents : \A c \in pending[p] :
            \E i \in 1 .. Len(meta_list(p)) : meta_list(p)[i] = c

(***************************************************************************)
(*                Properties of the large statement fetch task             *)
(***************************************************************************)

\* A step of fetch() that sends a request to a peer.
RequestSent == rq_pending' = rq_pending + 1

\* At most one request is outstanding; a peer that was requested before is
\* requested again only when no handed-out peer is left untried; a peer
\* whose response was rejected is not requested unless handed out again;
\* nothing is sent after the return.
RequestDiscipline ==
    /\ rq_pending' \in {0, 1}
    /\ RequestSent =>
          /\ Unwrap(rq_peer') \in rq_untried \/ rq_untried = {}
          /\ Unwrap(rq_peer') \notin rq_rejected
    /\ rq_pc = "done" => rq_out' = rq_out

\* C35 (as amended): one request outstanding at a time, failed peers retried
\* only after every untried peer, rejected peers not requested again unless
\* handed out again, and fetch() returns only when a response was accepted,
\* the channel to the subsystem is closed, or the subsystem dropped the
\* reply sender of a GetMorePeers request.
C35_FetchRetriesInOrderUntilStopped ==
    [][/\ RequestDiscipline
       /\ rq_pc' = "done" =>
             Unwrap(rq_stop') \in {"accepted", "closed", "canceled"}]_vars

\* C35 (as stated): the same, with fetch() returning only when a response
\* was accepted or the channel to the subsystem is closed.
C35_FetchStopsOnlyAcceptedOrClosed ==
    [][/\ RequestDiscipline
       /\ rq_pc' = "done" => Unwrap(rq_stop') \in {"accepted", "closed"}]_vars

\* The peers that failed were taken back and a new peer arrived: the
\* arrival is popped before the failed peer.
C35_Witness ==
    /\ rq_pc = "loop"
    /\ Len(rq_new_peers) = 2
    /\ rq_new_peers[2] \in rq_untried
    /\ rq_new_peers[1] \notin rq_untried

(***************************************************************************)
(*                  Properties of DetermineUndisputedChain                 *)
(***************************************************************************)

\* The described block is compromised: it includes a candidate that is in an
\* unresolved dispute for the block's session.
Compromised(description) ==
    \E c \in description.candidates : <<description.session, c>> \in loaded_active_disputes

\* 0-based indices of the compromised descriptions of the request received.
CompromisedIndices ==
    {i \in 0 .. (Len(Unwrap(chain_request).block_descriptions) - 1) :
        Compromised(Unwrap(chain_request).block_descriptions[i + 1])}

FirstCompromised == CHOOSE i \in CompromisedIndices : \A j \in CompromisedIndices : i <= j

\* C2: when the first compromised description of a request is at index i > 0
\* the reply is (base_number + i, hash of description i - 1), and when it is at
\* index 0 the reply is nothing.
C2_ReplyIsBlockBeforeFirstCompromised ==
    (IsSome(chain_reply) /\ CompromisedIndices # {}) =>
        Unwrap(chain_reply) =
            IF FirstCompromised = 0 THEN ReplyNone
            ELSE ReplySome(Unwrap(chain_request).base_number + FirstCompromised,
                           Unwrap(chain_request).block_descriptions[FirstCompromised].hash)

\* C3: when no described block is compromised the reply is the last described
\* block, numbered base_number + the number of descriptions, with its hash; the
\* reply is nothing when there are no descriptions.
C3_ReplyIsLastWhenNothingDisputed ==
    (IsSome(chain_reply) /\ CompromisedIndices = {}) =>
        LET base_number == Unwrap(chain_request).base_number
            block_descriptions == Unwrap(chain_request).block_descriptions
        IN  Unwrap(chain_reply) =
                IF block_descriptions = <<>> THEN ReplyNone
                ELSE ReplySome(base_number + Len(block_descriptions),
                               block_descriptions[Len(block_descriptions)].hash)

\* C3 witness: disputes are recorded, the longest chain is described from a
\* base above 0, one of its blocks includes a candidate disputed in another
\* session only, and the reply is the last block.
C3_Witness ==
    /\ IsSome(chain_reply)
    /\ CompromisedIndices = {}
    /\ loaded_active_disputes # {}
    /\ Unwrap(chain_request).base_number = MaxBase
    /\ Len(Unwrap(chain_request).block_descriptions) = MaxBlocks
    /\ \E i \in 1 .. MaxBlocks : \E p \in loaded_active_disputes :
           p[2] \in Unwrap(chain_request).block_descriptions[i].candidates
    /\ Unwrap(chain_reply) = ReplySome(MaxBase + MaxBlocks, BlockHash(MaxBase + MaxBlocks))

(***************************************************************************)
(*                   Properties of the availability store                  *)
(***************************************************************************)

StoreKeys == RelayParents \X StoreCandidates

\* C4: while the last thing that happened to (relay_parent, candidate_hash) is a
\* make_available (no candidates_finalized(relay_parent, S) with the candidate
\* outside S came after it), block_data returns the bytes of that most recent
\* make_available; a candidates_finalized with the candidate in S leaves them
\* readable.
C4_BlockDataReadableUntilFinalizedAway ==
    \A k \in StoreKeys :
        written[k][1] = "Written" => block_data(k[1], k[2]) = Some(written[k][2])

\* C4 witness: a parent was finalized, nothing was made available at it since,
\* one of its candidates lost its data and the other one is still readable.
C4_Witness ==
    \E p \in RelayParents : \E c \in StoreCandidates : \E d \in StoreCandidates :
        /\ pending[p] = {}
        /\ written[<<p, c>>][1] = "Written"
        /\ block_data(p, c) = Some(written[<<p, c>>][2])
        /\ written[<<p, d>>] = Dropped

\* C4 as stated: the bytes block_data returns are the ones first written; no
\* later call other than a candidates_finalized without the candidate changes them.
C4_BlockDataNeverChanges ==
    [][\A k \in StoreKeys :
          (written[k][1] = "Written" /\ written'[k][1] = "Written")
              => block_data(k[1], k[2])' = Some(written[k][2])]_vars

C6_QueueReadable ==
    \A r \in QueueRoots :
        IsSome(queued[r]) => queue_by_root(r) = queued[r]

\* C6 witness: a queue is readable after a candidates_finalized that removed
\* block data at a parent at which nothing was made available since.
C6_Witness ==
    \E r \in QueueRoots : \E k \in StoreKeys :
        /\ IsSome(queued[r])
        /\ queue_by_root(r) = queued[r]
        /\ written[k] = Dropped
        /\ pending[k[1]] = {}

\* C28: candidates_finalized(p, S) is idempotent: whenever a step leaves the
\* columns as a call candidates_finalized(p, S) leaves them, a second call
\* with the same arguments, made before any make_available, leaves the data
\* and the meta column exactly as they are.
C28_CandidatesFinalizedIdempotent ==
    [][\A p \in RelayParents :
          meta_col' = candidates_finalized_meta(p) =>
              \A S \in SUBSET StoreCandidates :
                  data_col' = candidates_finalized_data(p, S) =>
                      /\ candidates_finalized_data(p, S)' = data_col'
                      /\ candidates_finalized_meta(p)' = meta_col']_vars

\* C28 witness: a parent with two candidates was finalized with one of them
\* included: the other one's data is gone, the parent's list is deleted and
\* nothing was made available at it since.
C28_Witness ==
    \E p \in RelayParents : \E c \in StoreCandidates : \E d \in StoreCandidates :
        /\ meta_col[p] = None
        /\ pending[p] = {}
        /\ written[<<p, c>>][1] = "Written"
        /\ IsSome(data_col[block_data_key(p, c)])
        /\ written[<<p, d>>] = Dropped
        /\ data_col[block_data_key(p, d)] = None

\* C29: when the bytes stored under the key cannot be decoded, block_data and
\* queue_by_root log and return nothing, as for a key that is not found: no
\* query ends in a panic of its caller.
C29_UndecodableIsNotFound ==
    IsSome(store_reply) => Unwrap(store_reply).result # StorePanic

\* C6 as stated: no call changes the messages stored under a root.
C6_QueueNeverChanges ==
    [][\A r \in QueueRoots :
          IsSome(queued[r]) => queue_by_root(r)' = queued[r]]_vars

====
